---- MODULE Spec2Model ----
(***************************************************************************)
(* Knowledge-base pipeline of TIPO-STO: chunker, page attribution,         *)
(* ingestion, search and document management over the vector store.        *)
(*                                                                         *)
(* Text is a sequence of one-character strings.  A token is a non-empty    *)
(* sequence of characters.  Scores and distances are integers in units of  *)
(* 1e-5 (ScoreOne is 1.0).                                                 *)
(***************************************************************************)
EXTENDS Integers, Sequences, FiniteSets, TLC

Min(a, b) == IF a <= b THEN a ELSE b

Max(a, b) == IF a >= b THEN a ELSE b

\* the concatenation of ss[lo..hi], by halves
RECURSIVE FlattenRange(_, _, _)
FlattenRange(ss, lo, hi) ==
    IF lo > hi THEN <<>>
    ELSE IF lo = hi THEN ss[lo]
    ELSE FlattenRange(ss, lo, (lo + hi) \div 2)
         \o FlattenRange(ss, (lo + hi) \div 2 + 1, hi)

Flatten(ss) == FlattenRange(ss, 1, Len(ss))

\* s * n
Rep(s, n) == [k \in 1..(n * Len(s)) |-> s[((k - 1) % Len(s)) + 1]]

\* the positions of s whose character satisfies Test, in increasing order
Positions(s, Test(_)) ==
    SelectSeq([i \in 1..Len(s) |-> i], LAMBDA i : Test(i))

---------------------------------------------------------------------------
(* Characters                                                              *)

WhiteSpace == {" ", "\n", "\t", "\r", "\f"}

DigitChars == {"0", "1", "2", "3", "4", "5", "6", "7", "8", "9"}

DigitVal(c) ==
    CASE c = "0" -> 0 [] c = "1" -> 1 [] c = "2" -> 2 [] c = "3" -> 3
      [] c = "4" -> 4 [] c = "5" -> 5 [] c = "6" -> 6 [] c = "7" -> 7
      [] c = "8" -> 8 [] c = "9" -> 9

DigitChar(d) ==
    CASE d = 0 -> "0" [] d = 1 -> "1" [] d = 2 -> "2" [] d = 3 -> "3"
      [] d = 4 -> "4" [] d = 5 -> "5" [] d = 6 -> "6" [] d = 7 -> "7"
      [] d = 8 -> "8" [] d = 9 -> "9"

\* str.strip(): drop leading and trailing whitespace
NonSpace(s) == Positions(s, LAMBDA i : s[i] \notin WhiteSpace)

LStrip(s) ==
    LET at == NonSpace(s)
    IN  IF at = <<>> THEN <<>> ELSE SubSeq(s, at[1], Len(s))

RStrip(s) ==
    LET at == NonSpace(s)
    IN  IF at = <<>> THEN <<>> ELSE SubSeq(s, 1, at[Len(at)])

Strip(s) == RStrip(LStrip(s))

---------------------------------------------------------------------------
(* Tokenizer (cl100k_base stand-in): greedy longest match over a small     *)
(* vocabulary of multi-character tokens, single characters otherwise.      *)
(* decode is the concatenation of the tokens' characters.                  *)

Vocab ==
    { <<"P", "A", "G", "E">>, <<"a", "a">>, <<" ", "a">>, <<" ", " ">>,
      <<".", ".">>, <<"a", "a", "a", "a", "a", "a", "a", "a", "a", "a">> }

MatchesAt(text, i, w) ==
    /\ i + Len(w) - 1 <= Len(text)
    /\ SubSeq(text, i, i + Len(w) - 1) = w

LongestAt(text, i) ==
    LET cands == {w \in Vocab : MatchesAt(text, i, w)}
    IN  IF cands = {} THEN <<text[i]>>
        ELSE CHOOSE w \in cands : \A v \in cands : Len(v) <= Len(w)

\* the left-to-right scan, run by halves of the text: the tokens that start
\* in lo..hi when the scan enters at position i, and where the scan leaves
RECURSIVE EncodeRange(_, _, _, _)
EncodeRange(text, i, lo, hi) ==
    IF i > hi THEN [tokens |-> <<>>, next |-> i]
    ELSE IF lo = hi
         THEN LET tok == LongestAt(text, i)
              IN  [tokens |-> <<tok>>, next |-> i + Len(tok)]
         ELSE LET mid   == (lo + hi) \div 2
                  left  == EncodeRange(text, i, lo, mid)
                  right == EncodeRange(text, left.next, mid + 1, hi)
              IN  [tokens |-> left.tokens \o right.tokens, next |-> right.next]

encode(text) == EncodeRange(text, 1, 1, Len(text)).tokens

decode(tokens) == Flatten(tokens)

count_tokens(text) == Len(encode(text))

---------------------------------------------------------------------------
(* chunker.chunk_text                                                      *)

\* step = chunk_size - chunk_overlap
ChunkStepMutant(chunk_size, chunk_overlap) == chunk_size + 1

ChunkStep(chunk_size, chunk_overlap) == chunk_size - chunk_overlap

\* if not text or not text.strip(): return []
IsBlankMutant(text) == text = <<>>

IsBlank(text) == text = <<>> \/ Strip(text) = <<>>

\* if len(tokens) <= chunk_size: return [text]
ShortChunksMutant(text) == <<Strip(text)>>

ShortChunks(text) == <<text>>

\* one iteration of the while loop at `start`: the window [lo, hi)
\* (0-based, hi exclusive), the next start, and whether the loop has ended
WindowIterMutant(n, start, chunk_size, step) ==
    IF ~(start < n) THEN [ws |-> <<>>, start |-> start, done |-> TRUE]
    ELSE LET end == Min(start + chunk_size, n)
         IN  IF end >= n
             THEN [ws |-> <<[lo |-> start, hi |-> end]>>, start |-> start,
                   done |-> TRUE]
             ELSE [ws |-> <<[lo |-> start, hi |-> end]>>, start |-> end,
                   done |-> FALSE]

WindowIter(n, start, chunk_size, step) ==
    IF ~(start < n) THEN [ws |-> <<>>, start |-> start, done |-> TRUE]
    ELSE LET end == Min(start + chunk_size, n)
         IN  IF end >= n
             THEN [ws |-> <<[lo |-> start, hi |-> end]>>, start |-> start,
                   done |-> TRUE]
             ELSE [ws |-> <<[lo |-> start, hi |-> end]>>, start |-> start + step,
                   done |-> FALSE]

\* at most `fuel` iterations of the while loop, run by halves
RECURSIVE WindowRun(_, _, _, _, _)
WindowRun(n, start, chunk_size, step, fuel) ==
    IF fuel <= 1 THEN WindowIter(n, start, chunk_size, step)
    ELSE LET half  == fuel \div 2
             first == WindowRun(n, start, chunk_size, step, half)
         IN  IF first.done THEN first
             ELSE LET rest == WindowRun(n, first.start, chunk_size, step,
                                        fuel - half)
                  IN  [ws |-> first.ws \o rest.ws, start |-> rest.start,
                       done |-> rest.done]

\* the whole loop: with step >= 1 it ends within n iterations
WindowLoop(n, start, chunk_size, step) ==
    WindowRun(n, start, chunk_size, step, n + 1).ws

\* the token ranges behind the chunks chunk_text returns
chunk_windows(text, chunk_size, chunk_overlap) ==
    IF IsBlank(text) THEN <<>>
    ELSE LET n == count_tokens(text)
         IN  IF n <= chunk_size THEN <<[lo |-> 0, hi |-> n]>>
             ELSE WindowLoop(n, 0, chunk_size,
                             ChunkStep(chunk_size, chunk_overlap))

chunk_text(text, chunk_size, chunk_overlap) ==
    IF IsBlank(text) THEN <<>>
    ELSE LET tokens == encode(text)
         IN  IF Len(tokens) <= chunk_size THEN ShortChunks(text)
             ELSE LET ws == WindowLoop(Len(tokens), 0, chunk_size,
                                       ChunkStep(chunk_size, chunk_overlap))
                  IN  [k \in 1..Len(ws) |->
                          decode(SubSeq(tokens, ws[k].lo + 1, ws[k].hi))]

---------------------------------------------------------------------------
(* chunker.extract_pages_from_chunk                                        *)

PageMarkerOpen == <<"[", "P", "A", "G", "E", ":">>

RECURSIVE DigitRun(_, _)
DigitRun(s, i) ==
    IF i <= Len(s) /\ s[i] \in DigitChars
    THEN <<s[i]>> \o DigitRun(s, i + 1)
    ELSE <<>>

RECURSIVE ParseInt(_, _)
ParseInt(ds, acc) ==
    IF ds = <<>> THEN acc ELSE ParseInt(Tail(ds), acc * 10 + DigitVal(Head(ds)))

RECURSIVE ToStr(_)
ToStr(n) ==
    IF n < 10 THEN <<DigitChar(n)>>
    ELSE ToStr(n \div 10) \o <<DigitChar(n % 10)>>

\* a match of \[PAGE:(\d+)\] starts at position i of s
MarkerAt(s, i) ==
    /\ MatchesAt(s, i, PageMarkerOpen)
    /\ LET ds    == DigitRun(s, i + Len(PageMarkerOpen))
           close == i + Len(PageMarkerOpen) + Len(ds)
       IN  ds # <<>> /\ close <= Len(s) /\ s[close] = "]"

\* re.findall(r"\[PAGE:(\d+)\]", s), each match converted with int();
\* a match holds no "[" after its first character, so matches never overlap
FindPages(s) ==
    LET at == Positions(s, LAMBDA i : MarkerAt(s, i))
    IN  [k \in 1..Len(at) |->
            ParseInt(DigitRun(s, at[k] + Len(PageMarkerOpen)), 0)]

extract_pages_from_chunk(chunk) ==
    LET pages == FindPages(chunk)
    IN  IF pages = <<>> THEN <<>>
        ELSE IF Len(pages) = 1 \/ pages[1] = pages[Len(pages)]
             THEN ToStr(pages[1])
             ELSE ToStr(pages[1]) \o <<"-">> \o ToStr(pages[Len(pages)])

\* s.split(sep)[-1]
SplitLast(s, sep) ==
    LET at == Positions(s, LAMBDA i : s[i] = sep)
    IN  IF at = <<>> THEN s ELSE SubSeq(s, at[Len(at)] + 1, Len(s))

---------------------------------------------------------------------------
(* Page propagation of add_document                                        *)

\* last_known_page = pages.split("-")[-1]
LastKnownPageMutant(pages) == pages

LastKnownPage(pages) == SplitLast(pages, "-")

\* pages if the chunk has markers, else the inherited last known page
InheritPagesMutant(pages, last_known_page) == pages

InheritPages(pages, last_known_page) ==
    IF pages # <<>> THEN pages
    ELSE IF last_known_page # <<>> THEN last_known_page
    ELSE pages

\* the loop body for chunk i, given last_known_page before it
PagesIter(chunks, i, last_known_page) ==
    LET pages == extract_pages_from_chunk(chunks[i])
    IN  [pages |-> <<InheritPages(pages, last_known_page)>>,
         last  |-> IF pages # <<>> THEN LastKnownPage(pages)
                   ELSE last_known_page]

\* the loop over chunks lo..hi in order, run by halves
RECURSIVE PagesLoop(_, _, _, _)
PagesLoop(chunks, lo, hi, last_known_page) ==
    IF lo > hi THEN [pages |-> <<>>, last |-> last_known_page]
    ELSE IF lo = hi THEN PagesIter(chunks, lo, last_known_page)
    ELSE LET mid   == (lo + hi) \div 2
             left  == PagesLoop(chunks, lo, mid, last_known_page)
             right == PagesLoop(chunks, mid + 1, hi, left.last)
         IN  [pages |-> left.pages \o right.pages, last |-> right.last]

chunk_pages(chunks) == PagesLoop(chunks, 1, Len(chunks), <<>>).pages

---------------------------------------------------------------------------
(* document_processor: extract_text for plain-text uploads, clean_text     *)

TextSuffixes == {".txt", ".md", ".markdown"}

\* the Python test `needle in haystack` on strings
IsSubstr(needle, hay) ==
    \E i \in 1..(Len(hay) - Len(needle) + 1) : MatchesAt(hay, i, needle)

\* "%" stands for the characters U+00C0..U+00FF, "@" for U+0400..U+04FF
LatinDiacriticChars == {"%"}

CyrillicChars == {"@"}

GarbledMinLen == 50

SampleLen == 500

DiacriticPercent == 15

\* _is_garbled: text of under 50 characters is never garbled; otherwise a
\* "(cid:" in the first 500 characters, or more than 15% Latin characters
\* with diacritics there and fewer Cyrillic ones
_is_garbled(text) ==
    IF text = <<>> \/ Len(text) < GarbledMinLen THEN FALSE
    ELSE LET sample == SubSeq(text, 1, Min(SampleLen, Len(text)))
             cyrillic == Len(SelectSeq(sample, LAMBDA c : c \in CyrillicChars))
             latin_diacritic ==
                 Len(SelectSeq(sample, LAMBDA c : c \in LatinDiacriticChars))
         IN  \/ IsSubstr(<<"(", "c", "i", "d", ":">>, sample)
             \/ /\ 100 * latin_diacritic > Len(sample) * DiacriticPercent
                /\ cyrillic < latin_diacritic

\* the backends in the order _extract_pdf calls them
PdfChain == <<"pymupdf", "pypdf", "pdfplumber", "pdfminer">>

\* _extract_pdf: `backends` gives what each library does on the file
\* (raises, or returns a text); `attempted` lists the backends called.
\* PyMuPDF, pdfplumber and pdfminer run inside try/except, pypdf does not.
_extract_pdf(backends) ==
    LET usable(b) == /\ ~backends[b].raises
                     /\ backends[b].text # <<>>
                     /\ ~_is_garbled(backends[b].text)
    IN  IF usable("pymupdf")
        THEN [ok |-> TRUE, text |-> backends["pymupdf"].text,
              attempted |-> SubSeq(PdfChain, 1, 1)]
        ELSE IF backends["pypdf"].raises
        THEN [ok |-> FALSE, text |-> <<>>, attempted |-> SubSeq(PdfChain, 1, 2)]
        ELSE IF ~_is_garbled(backends["pypdf"].text)
        THEN [ok |-> TRUE, text |-> backends["pypdf"].text,
              attempted |-> SubSeq(PdfChain, 1, 2)]
        ELSE IF usable("pdfplumber")
        THEN [ok |-> TRUE, text |-> backends["pdfplumber"].text,
              attempted |-> SubSeq(PdfChain, 1, 3)]
        ELSE IF usable("pdfminer")
        THEN [ok |-> TRUE, text |-> backends["pdfminer"].text,
              attempted |-> PdfChain]
        ELSE [ok |-> TRUE, text |-> backends["pypdf"].text,
              attempted |-> PdfChain]

\* extract_text: dispatch on the suffix; ValueError for an unknown type
extract_text(file) ==
    IF file.suffix = ".pdf" THEN _extract_pdf(file.backends)
    ELSE IF file.suffix \in TextSuffixes
    THEN [ok |-> TRUE, text |-> file.raw]
    ELSE [ok |-> FALSE, text |-> <<>>]

\* [\x00-\x08\x0b\x0c\x0e-\x1f\x7f]: form feed stands for the class
ControlChars == {"\f"}

RemoveControl(text) == SelectSeq(text, LAMBDA c : c \notin ControlChars)

\* re.sub(r"\n{3,}", "\n\n", text): of a run of newlines the first two stay
CollapseNewlines(s) ==
    LET at == Positions(s, LAMBDA i :
                  ~(i > 2 /\ s[i] = "\n" /\ s[i - 1] = "\n" /\ s[i - 2] = "\n"))
    IN  [k \in 1..Len(at) |-> s[at[k]]]

\* text.split("\n")
Lines(s) ==
    LET nl == Positions(s, LAMBDA i : s[i] = "\n")
        from(k) == IF k = 1 THEN 1 ELSE nl[k - 1] + 1
        to(k)   == IF k = Len(nl) + 1 THEN Len(s) ELSE nl[k] - 1
    IN  [k \in 1..(Len(nl) + 1) |-> SubSeq(s, from(k), to(k))]

\* "\n".join(lines)
RECURSIVE JoinLines(_)
JoinLines(ls) ==
    IF Len(ls) = 0 THEN <<>>
    ELSE IF Len(ls) = 1 THEN ls[1]
    ELSE ls[1] \o <<"\n">> \o JoinLines(Tail(ls))

RStripLines(s) == LET ls == Lines(s) IN JoinLines([k \in 1..Len(ls) |-> RStrip(ls[k])])

clean_text(text) == Strip(RStripLines(CollapseNewlines(RemoveControl(text))))

---------------------------------------------------------------------------
(* Content hash: sha256(text)[:16] as a 15-bit polynomial checksum          *)

CharCode(c) ==
    CASE c = "a" -> 97 [] c = "b" -> 98 [] c = " " -> 32 [] c = "\n" -> 10
      [] c = "\t" -> 9 [] c = "." -> 46 [] c = "[" -> 91 [] c = "]" -> 93
      [] c = ":" -> 58 [] c = "P" -> 80 [] c = "A" -> 65 [] c = "G" -> 71
      [] c = "E" -> 69 [] c \in DigitChars -> 48 + DigitVal(c)
      [] OTHER -> 63

HashMod == 32749

\* the checksum of text[lo..hi] and 31^(hi - lo + 1), both modulo HashMod
RECURSIVE HashRange(_, _, _)
HashRange(text, lo, hi) ==
    IF lo > hi THEN <<0, 1>>
    ELSE IF lo = hi THEN <<CharCode(text[lo]) % HashMod, 31>>
    ELSE LET mid   == (lo + hi) \div 2
             left  == HashRange(text, lo, mid)
             right == HashRange(text, mid + 1, hi)
         IN  << (left[1] * right[2] + right[1]) % HashMod,
                (left[2] * right[2]) % HashMod >>

\* doc_id = hashlib.sha256(text.encode()).hexdigest()[:16]
DocId(text) == HashRange(text, 1, Len(text))[1]

\* ids = [f"{doc_id}_{i}" for i in range(len(chunks))]
ChunkIdMutant(doc_id, i) == <<doc_id + i, 0>>

ChunkId(doc_id, i) == <<doc_id, i>>

---------------------------------------------------------------------------
(* Search helpers.  Cyrillic words are written in Latin transliteration.   *)

\* str.lower() on the letters that occur in the model's inputs
LowerChar(c) ==
    CASE c = "K" -> "k" [] c = "I" -> "i" [] c = "A" -> "a" [] c = "R" -> "r"
      [] c = "O" -> "o" [] c = "M" -> "m" [] c = "P" -> "p" [] c = "G" -> "g"
      [] c = "E" -> "e" [] OTHER -> c

Lower(s) == [k \in 1..Len(s) |-> LowerChar(s[k])]

\* entries of the expansions table of _expand_query, in table order
\* ("maslo" for the oil stem, "filtr" for the filter stem)
Expansions ==
    << [keyword  |-> <<"m", "a", "s", "l", "o">>,
        synonyms |-> <<"m", "o", "t", "o", "r", " ", "m", "a", "s", "l", "o">>],
       [keyword  |-> <<"f", "i", "l", "t", "r">>,
        synonyms |-> <<"f", "i", "l", "t", "r", " ", "z", "a", "m", "e", "n", "a">>] >>

RECURSIVE ExtraTerms(_, _)
ExtraTerms(query_lower, k) ==
    IF k > Len(Expansions) THEN <<>>
    ELSE (IF IsSubstr(Expansions[k].keyword, query_lower)
          THEN <<Expansions[k].synonyms>> ELSE <<>>)
         \o ExtraTerms(query_lower, k + 1)

\* " ".join(terms)
RECURSIVE JoinSpace(_)
JoinSpace(ts) ==
    IF Len(ts) = 0 THEN <<>>
    ELSE IF Len(ts) = 1 THEN ts[1]
    ELSE ts[1] \o <<" ">> \o JoinSpace(Tail(ts))

_expand_query(query) ==
    LET extra_terms == ExtraTerms(Lower(query), 1)
    IN  IF extra_terms # <<>> THEN query \o <<" ">> \o JoinSpace(extra_terms)
        ELSE query

\* entries of the brands table of _extract_car_keywords
\* ("kia", its Cyrillic spelling written "kiya", "lada")
Brands ==
    { [keyword |-> <<"k", "i", "a">>, file_terms |-> {<<"k", "i", "a">>}],
      [keyword |-> <<"k", "i", "y", "a">>, file_terms |-> {<<"k", "i", "a">>}],
      [keyword |-> <<"l", "a", "d", "a">>,
       file_terms |-> {<<"l", "a", "d", "a">>, <<"v", "a", "z">>}] }

\* list(set(found)): the file terms of every brand keyword in the query
_extract_car_keywords(query) ==
    UNION {b.file_terms : b \in {x \in Brands : IsSubstr(x.keyword, query)}}

Ellipsis == "u2026"

IsDotLine(line) ==
    \/ IsSubstr(<<".", " ", ".", " ", ".">>, line)
    \/ IsSubstr(<<".", ".", ".", ".">>, line)
    \/ IsSubstr(<<Ellipsis>>, line)

MinChunkChars == 100

MinDotLines == 3

_is_low_quality_chunkMutant(text) == Len(Strip(text)) < MinChunkChars

_is_low_quality_chunk(text) ==
    IF Len(Strip(text)) < MinChunkChars THEN TRUE
    ELSE LET ls          == Lines(text)
             dot_lines   == Cardinality({k \in 1..Len(ls) : IsDotLine(ls[k])})
             total_lines == Max(Len(ls), 1)
         IN  dot_lines > MinDotLines /\ 5 * dot_lines > total_lines

ScoreOne == 100000

\* score = 1.0 - (dist / 2.0)
Score(dist) == ScoreOne - dist \div 2

\* round(score, 4): to the nearest multiple of 1e-4, ties to even
Round4(score) ==
    LET r    == score % 10
        base == score - r
    IN  IF r < 5 THEN base
        ELSE IF r > 5 THEN base + 10
        ELSE IF (base \div 10) % 2 = 0 THEN base ELSE base + 10

\* Optional arguments: <<>> is None, <<v>> a supplied value
None == <<>>

Some(v) == <<v>>

RAG_TOP_K == 5

RAG_MIN_RELEVANCE == 30000

\* top_k = top_k or self.settings.RAG_TOP_K
ResolveTopK(top_k) ==
    IF top_k = None \/ top_k[1] = 0 THEN RAG_TOP_K ELSE top_k[1]

\* min_relevance = min_relevance or self.settings.RAG_MIN_RELEVANCE
ResolveMinRelevance(min_relevance) ==
    IF min_relevance = None \/ min_relevance[1] = 0 THEN RAG_MIN_RELEVANCE
    ELSE min_relevance[1]

FetchFactor == 20

\* fetch_k = min(top_k * 20, self._collection.count())
FetchK(top_k, count) == Min(top_k * FetchFactor, count)

\* sorted(hits, key=lambda x: x["score"], reverse=True): stable, so hits of
\* equal score keep their order
SortHits(hits) ==
    LET n == Len(hits)
        rank == [j \in 1..n |->
                    1 + Cardinality({i \in 1..n :
                        \/ hits[i].score > hits[j].score
                        \/ (hits[i].score = hits[j].score /\ i < j)})]
    IN  [k \in 1..n |-> hits[CHOOSE j \in 1..n : rank[j] = k]]

\* sorted(data["data"], key=lambda x: x["index"])
SortByIndex(data) ==
    LET n == Len(data)
        rank == [j \in 1..n |->
                    1 + Cardinality({i \in 1..n :
                        \/ data[i].index < data[j].index
                        \/ (data[i].index = data[j].index /\ i < j)})] @@ <<>>
    IN  [k \in 1..n |-> data[CHOOSE j \in 1..n : rank[j] = k]] @@ <<>>

\* seq[:n]
Take(seq, n) == SubSeq(seq, 1, Min(n, Len(seq)))

---------------------------------------------------------------------------
(* State                                                                   *)

VARIABLES
    settings,   \* RAG_CHUNK_SIZE, RAG_CHUNK_OVERLAP of the loaded Settings
    files,      \* the uploads that can arrive: a file and its filename
    store,      \* the ChromaDB collection: chunk id -> record
    ing,        \* add_document calls: slot -> position and locals
    srch,       \* the search call: position, arguments, locals, result
    now,        \* int(time.time()); a run is shorter than one second
    ret,        \* the value last returned by a synchronous management call
    live,       \* history: ingestions that returned and were not deleted since
    chunker     \* a direct call of chunk_text and of the page loop

vars == <<settings, files, store, ing, srch, now, ret, live, chunker>>

Range(seq) == {seq[k] : k \in 1..Len(seq)}

\* self._collection.count()
Count(st) == Cardinality(DOMAIN st)

\* self._collection.get(where={"document_id": document_id})["ids"]
IdsOf(st, document_id) ==
    {id \in DOMAIN st : st[id].metadata.document_id = document_id}

\* self._collection.upsert(ids, embeddings, documents, metadatas)
UpsertMutant(st, ids, embeddings, documents, metadatas) ==
    [id \in DOMAIN st \cup Range(ids) |->
        IF id \in DOMAIN st THEN st[id]
        ELSE LET k == CHOOSE j \in 1..Len(ids) : ids[j] = id
             IN  [embedding |-> embeddings[k], document |-> documents[k],
                  metadata |-> metadatas[k]]]

Upsert(st, ids, embeddings, documents, metadatas) ==
    [id \in DOMAIN st \cup Range(ids) |->
        IF id \in Range(ids)
        THEN LET k == CHOOSE j \in 1..Len(ids) : ids[j] = id
             IN  [embedding |-> embeddings[k], document |-> documents[k],
                  metadata |-> metadatas[k]]
        ELSE st[id]]

\* self._collection.delete(ids=ids)
DeleteIdsMutant(st, ids) ==
    [id \in DOMAIN st \ {i \in ids : i[2] = 0} |-> st[id]]

DeleteIds(st, ids) == [id \in DOMAIN st \ ids |-> st[id]]

---------------------------------------------------------------------------
(* Embedding provider and _get_embeddings                                  *)

\* the vector the provider computes for a text
ProviderVector(text) == <<"vec", text>>

\* orders in which the provider may list the items of a response
ResponseOrders(n) ==
    { [k \in 1..n |-> k], [k \in 1..n |-> n + 1 - k] }

\* the response's data list, then sorted(..., key=index), then the vectors
_get_embeddingsMutant(texts, order) ==
    [k \in 1..Len(texts) |-> ProviderVector(texts[order[k]])]

_get_embeddings(texts, order) ==
    LET data == [k \in 1..Len(texts) |->
                    [index |-> order[k] - 1,
                     embedding |-> ProviderVector(texts[order[k]])]]
        sorted_data == SortByIndex(data)
    IN  [k \in 1..Len(sorted_data) |-> sorted_data[k].embedding]

---------------------------------------------------------------------------
(* Inputs                                                                  *)

\* add_document embeds the chunks in batches of this size
batch_size == 50

Marker(n) == PageMarkerOpen \o ToStr(n) \o <<"]">>

\* two chunks at chunk_size 20, overlap 4: 143 characters, then 38
FileA == [path |-> "a.txt", suffix |-> ".txt",
          raw |-> Marker(1) \o Rep(<<"a">>, 130) \o Marker(2) \o Rep(<<"a">>, 10)
                  \o <<"\n", " ">>]

\* one chunk of 110 characters
FileB == [path |-> "b.md", suffix |-> ".md",
          raw |-> <<"\f">> \o Rep(<<"a">>, 110)]

\* one chunk of 120 characters
FileK == [path |-> "k.txt", suffix |-> ".txt", raw |-> Rep(<<"a">>, 120)]

\* one chunk of two lines, the second a dot-leader run
FileToc1 == [path |-> "toc1.txt", suffix |-> ".txt",
             raw |-> Rep(<<"a">>, 100) \o <<"\n", ".", ".", ".", ".">>]

\* one chunk of five lines, four of them holding a dot-leader character
FileToc4 == [path |-> "toc4.txt", suffix |-> ".txt",
             raw |-> Rep(<<"a">>, 100) \o Rep(<<"\n", Ellipsis>>, 4)]

FileBlank == [path |-> "blank.txt", suffix |-> ".txt", raw |-> <<" ", "\n", " ">>]

FileBin == [path |-> "c.bin", suffix |-> ".bin", raw |-> <<"a">>]

\* 101 one-token chunks at chunk_size 1: batches of 50, 50 and 1
FileBig == [path |-> "big.txt", suffix |-> ".txt",
            raw |-> [k \in 1..(2 * batch_size + 1) |->
                        IF k % 2 = 1 THEN "a" ELSE "b"]]

\* 50 one-token chunks at chunk_size 1: one full batch
FileFifty == [path |-> "fifty.txt", suffix |-> ".txt",
              raw |-> [k \in 1..batch_size |-> IF k % 2 = 1 THEN "b" ELSE "a"]]

FnKia == <<"K", "I", "A", "_", "R", "i", "o">>

FnManual == <<"m", "a", "n", "u", "a", "l">>

DocIdA == DocId(clean_text(FileA.raw))

DocIdB == DocId(clean_text(FileB.raw))

DocIdBig == DocId(clean_text(FileBig.raw))

\* the defaults RAG_CHUNK_SIZE = 800 and RAG_CHUNK_OVERLAP = 100
DefaultSettings == [chunk_size |-> 800, chunk_overlap |-> 100]

SmallSettings == [chunk_size |-> 20, chunk_overlap |-> 4]

TokenSettings == [chunk_size |-> 1, chunk_overlap |-> 0]

Upload(file, filename) == [file |-> file, filename |-> filename]

\* a deployment: its chunking settings and the uploads it receives
Configs ==
    { [settings |-> SmallSettings,
       files |-> {Upload(FileA, FnKia), Upload(FileA, FnManual),
                  Upload(FileB, FnManual), Upload(FileBlank, FnManual),
                  Upload(FileBin, FnManual)}],
      [settings |-> TokenSettings, files |-> {Upload(FileBig, FnManual)}],
      [settings |-> TokenSettings, files |-> {Upload(FileFifty, FnManual)}] }

IngestSlots == {1, 2}

EmptyStore == [id \in {} |-> id]

QKiaOil == <<"K", "i", "a", " ", "m", "a", "s", "l", "o">>

QPlain == <<"a", "b">>

QOil == <<"m", "a", "s", "l", "o">>

Queries == {QKiaOil, QPlain, QOil}

TopKs == {None, Some(0), Some(1)}

MinRelevances == {None, Some(0), Some(30004)}

---------------------------------------------------------------------------
(* add_document                                                            *)

\* `raced` is history: the call returned while another call was embedding
\* the same document
IngestIdle ==
    [pc |-> "idle", file |-> "", filename |-> <<>>, doc_id |-> 0,
     chunks |-> <<>>, total_tokens |-> 0, i |-> 0, all_embeddings |-> <<>>,
     result |-> <<>>, error |-> "", raced |-> FALSE]

\* the call raised; i is the offset of the batch that was awaited
IngestFailed(why, i) ==
    [IngestIdle EXCEPT !.pc = "failed", !.error = why, !.i = i]

\* the metadatas list built after the last batch
Metadatas(doc_id, filename, chunks, t) ==
    LET pages == chunk_pages(chunks)
    IN  [k \in 1..Len(chunks) |->
            [document_id |-> doc_id, filename |-> filename,
             chunk_index |-> k - 1, total_chunks |-> Len(chunks),
             added_at |-> t, pages |-> pages[k]]]

\* ids = [f"{doc_id}_{i}" for i in range(len(chunks))]
ChunkIdsMutant(doc_id, n) == [k \in 1..(n - 1) |-> ChunkId(doc_id, k - 1)]

ChunkIds(doc_id, n) == [k \in 1..n |-> ChunkId(doc_id, k - 1)]

\* lines 89-105: extract, clean, count tokens, hash, chunk
Prepare(file, cfg) ==
    LET ex     == extract_text(file)
        text   == clean_text(ex.text)
        chunks == chunk_text(text, cfg.chunk_size, cfg.chunk_overlap)
    IN  [ok |-> ex.ok, text |-> text, total_tokens |-> count_tokens(text),
         doc_id |-> DocId(text), chunks |-> chunks]

\* Prepare on every file, under every deployment's settings
Prepared ==
    [cfg \in {c.settings : c \in Configs} |->
        [file \in {u.file : u \in UNION {c.files : c \in Configs}} |->
            Prepare(file, cfg)]]

\* the ValueError raised at lines 33, 92-93 or 107-108 ("" when none is)
PrologueError(prep) ==
    IF ~prep.ok THEN "unsupported file type"
    ELSE IF prep.text = <<>> THEN "no text"
    ELSE IF prep.chunks = <<>> THEN "zero chunks"
    ELSE ""

\* lines 89-115: prepare the file, raise or send the first batch
AddDocumentStart(p, file, filename) ==
    /\ ing[p].pc # "embedding"
    /\ LET prep == Prepared[settings][file]
       IN  ing' = [ing EXCEPT ![p] =
               IF PrologueError(prep) # ""
               THEN IngestFailed(PrologueError(prep), 0)
               ELSE [IngestIdle EXCEPT
                        !.pc = "embedding", !.file = file.path,
                        !.filename = filename, !.doc_id = prep.doc_id,
                        !.chunks = prep.chunks,
                        !.total_tokens = prep.total_tokens]]
    /\ UNCHANGED <<settings, files, store, srch, now, ret, live, chunker>>

\* lines 113-116: a batch's embeddings arrive and another batch is sent
EmbedBatchMoreMutant(p) ==
    /\ ing[p].pc = "embedding"
    /\ ing[p].i + batch_size < Len(ing[p].chunks)
    /\ \E order \in ResponseOrders(batch_size) :
          LET batch == SubSeq(ing[p].chunks, ing[p].i + 1, ing[p].i + batch_size)
              ids   == [k \in 1..batch_size |-> ChunkId(ing[p].doc_id, ing[p].i + k - 1)]
              metas == [k \in 1..batch_size |->
                          [document_id |-> ing[p].doc_id, filename |-> ing[p].filename,
                           chunk_index |-> ing[p].i + k - 1,
                           total_chunks |-> Len(ing[p].chunks),
                           added_at |-> now, pages |-> <<>>]]
          IN  /\ ing' = [ing EXCEPT
                     ![p].all_embeddings = @ \o _get_embeddings(batch, order),
                     ![p].i = @ + batch_size]
              /\ store' = Upsert(store, ids, _get_embeddings(batch, order),
                                 batch, metas)
    /\ UNCHANGED <<settings, files, srch, now, ret, live, chunker>>

EmbedBatchMore(p) ==
    /\ ing[p].pc = "embedding"
    /\ ing[p].i + batch_size < Len(ing[p].chunks)
    /\ \E order \in ResponseOrders(batch_size) :
          LET batch == SubSeq(ing[p].chunks, ing[p].i + 1, ing[p].i + batch_size)
          IN  ing' = [ing EXCEPT
                  ![p].all_embeddings = @ \o _get_embeddings(batch, order),
                  ![p].i = @ + batch_size]
    /\ UNCHANGED <<settings, files, store, srch, now, ret, live, chunker>>

\* lines 113-157: the last batch's embeddings arrive; ids, metadata, upsert
EmbedBatchLast(p) ==
    /\ ing[p].pc = "embedding"
    /\ ing[p].i + batch_size >= Len(ing[p].chunks)
    /\ LET me    == ing[p]
           batch == SubSeq(me.chunks, me.i + 1, Len(me.chunks))
       IN  \E order \in ResponseOrders(Len(batch)) :
             LET all_embeddings == me.all_embeddings \o _get_embeddings(batch, order)
                 ids       == ChunkIds(me.doc_id, Len(me.chunks))
                 metadatas == Metadatas(me.doc_id, me.filename, me.chunks, now)
                 result    == [document_id |-> me.doc_id, filename |-> me.filename,
                               chunk_count |-> Len(me.chunks),
                               token_count |-> me.total_tokens]
             IN  /\ store' = Upsert(store, ids, all_embeddings, me.chunks, metadatas)
                 /\ ing' = [ing EXCEPT ![p] =
                        [IngestIdle EXCEPT
                            !.pc = "done", !.file = me.file,
                            !.result = <<result>>,
                            !.raced = \E q \in IngestSlots \ {p} :
                                         /\ ing[q].pc = "embedding"
                                         /\ ing[q].doc_id = me.doc_id]]
                 /\ live' = live \cup {[file |-> me.file, filename |-> me.filename,
                                        document_id |-> me.doc_id,
                                        chunk_count |-> Len(me.chunks)]}
    /\ UNCHANGED <<settings, files, srch, now, ret, chunker>>

\* resp.raise_for_status() raises while a batch is awaited
EmbedBatchFail(p) ==
    /\ ing[p].pc = "embedding"
    /\ ing' = [ing EXCEPT ![p] = IngestFailed("embedding provider", ing[p].i)]
    /\ UNCHANGED <<settings, files, store, srch, now, ret, live, chunker>>

---------------------------------------------------------------------------
(* Management: get_documents, get_document, delete_document, get_stats     *)

NoRet == [op |-> "none", arg |-> 0, value |-> <<>>, status |-> 0]

HTTP_OK == 200

HTTP_NOT_FOUND == 404

\* GET /documents/{document_id}: 404 when the service returns None
get_document_endpoint(doc) == IF doc = None THEN HTTP_NOT_FOUND ELSE HTTP_OK

\* DELETE /documents/{document_id}: 404 when the service returns False
delete_document_endpointMutant(deleted) == HTTP_OK

delete_document_endpoint(deleted) ==
    IF ~deleted THEN HTTP_NOT_FOUND ELSE HTTP_OK

DocIdsIn(st) == {st[id].metadata.document_id : id \in DOMAIN st}

\* the first metadata met for a document id (the collection lists a
\* document's chunks in the order they were upserted)
FirstMeta(st, d) ==
    LET ids == IdsOf(st, d)
    IN  st[CHOOSE id \in ids : \A o \in ids : id[2] <= o[2]].metadata

DocumentRow(meta) ==
    [document_id |-> meta.document_id, filename |-> meta.filename,
     total_chunks |-> meta.total_chunks, added_at |-> meta.added_at]

\* self._collection.get(include=["metadatas"])["metadatas"]: every chunk's
\* metadata, listed by document and chunk index
AllMetadatas(st) ==
    LET rank == [id \in DOMAIN st |->
                    1 + Cardinality({o \in DOMAIN st :
                        \/ o[1] < id[1]
                        \/ (o[1] = id[1] /\ o[2] < id[2])})] @@ <<>>
        at   == [k \in 1..Count(st) |->
                    CHOOSE id \in DOMAIN st : rank[id] = k] @@ <<>>
    IN  [k \in 1..Count(st) |-> st[at[k]].metadata] @@ <<>>

\* the loop keeps the first metadata met for each document_id
get_documentsMutant(st) ==
    IF Count(st) = 0 THEN <<>>
    ELSE LET metas == AllMetadatas(st)
         IN  [k \in 1..Len(metas) |-> DocumentRow(metas[k])]

get_documents(st) ==
    IF Count(st) = 0 THEN <<>>
    ELSE LET metas == AllMetadatas(st)
             first == Positions(metas, LAMBDA k :
                          ~\E j \in 1..(k - 1) :
                              metas[j].document_id = metas[k].document_id)
         IN  [k \in 1..Len(first) |-> DocumentRow(metas[first[k]])]

get_document(st, document_id) ==
    LET ids == IdsOf(st, document_id)
        meta == FirstMeta(st, document_id)
    IN  IF ids = {} THEN None
        ELSE Some([document_id |-> document_id,
                   filename |-> meta.filename,
                   total_chunks |-> meta.total_chunks,
                   added_at |-> meta.added_at,
                   chunk_count |-> Cardinality(ids),
                   chunks |-> {[index |-> st[id].metadata.chunk_index,
                                text |-> st[id].document] : id \in ids}])

get_stats(st) ==
    LET docs == get_documents(st)
    IN  [total_chunks |-> Count(st), total_documents |-> Len(docs),
         documents |-> docs]

GetDocument(document_id) ==
    /\ ret' = [op |-> "get_document", arg |-> document_id,
               value |-> get_document(store, document_id),
               status |-> get_document_endpoint(get_document(store, document_id))]
    /\ UNCHANGED <<settings, files, store, ing, srch, now, live, chunker>>

GetStats ==
    /\ ret' = [op |-> "get_stats", arg |-> 0, value |-> <<get_stats(store)>>,
               status |-> HTTP_OK]
    /\ UNCHANGED <<settings, files, store, ing, srch, now, live, chunker>>

DeleteDocument(document_id) ==
    LET ids == IdsOf(store, document_id)
    IN  /\ IF ids = {}
           THEN /\ ret' = [op |-> "delete_document", arg |-> document_id,
                           value |-> <<FALSE>>,
                           status |-> delete_document_endpoint(FALSE)]
                /\ UNCHANGED <<store, live>>
           ELSE /\ store' = DeleteIds(store, ids)
                /\ live' = {r \in live : r.document_id # document_id}
                /\ ret' = [op |-> "delete_document", arg |-> document_id,
                           value |-> <<TRUE>>,
                           status |-> delete_document_endpoint(TRUE)]
        /\ UNCHANGED <<settings, files, ing, srch, now, chunker>>

---------------------------------------------------------------------------
(* search                                                                  *)

\* `scored` is history: each retrieved chunk with its score and whether
\* the threshold test dropped it
SearchIdle ==
    [pc |-> "idle", query |-> <<>>, top_k |-> None, min_relevance |-> None,
     fetch_k |-> 0, queries |-> <<>>, candidates |-> <<>>, result |-> <<>>,
     scored |-> {}, seen |-> <<>>]

\* queries = [query] plus the expanded query when it differs
QueryVariants(query) ==
    LET expanded == _expand_query(query)
    IN  IF expanded # query THEN <<query, expanded>> ELSE <<query>>

\* cosine distances the collection may report (even, in units of 1e-5):
\* scores 0.9, 0.30004 and 0.2
Dists == {20000, 139992, 160000}

\* self._collection.query: every ranking of the stored chunks by
\* non-decreasing distance, for every assignment of distances
Rankings(st) ==
    LET n == Count(st)
    IN  { r \in [1..n -> (DOMAIN st) \X Dists] :
            /\ \A i, j \in 1..n : i # j => r[i][1] # r[j][1]
            /\ \A i \in 1..(n - 1) : r[i][2] <= r[i + 1][2] }

Hit(doc, meta, score) ==
    [text |-> doc, score |-> Round4(score), filename |-> meta.filename,
     chunk_index |-> meta.chunk_index, document_id |-> meta.document_id,
     pages |-> meta.pages]

PosOf(cands, id) ==
    IF \E k \in 1..Len(cands) : cands[k].id = id
    THEN CHOOSE k \in 1..Len(cands) : cands[k].id = id
    ELSE 0

\* line 214: if score < min_relevance: continue
BelowThreshold(score, min_relevance) == score < min_relevance

\* lines 213-228: threshold, quality filter, keep the best score per chunk
AddCandidateMutant(cands, st, id, dist, min_relevance, low_quality) ==
    LET score == Score(dist)
        pos   == PosOf(cands, id)
        entry == [id |-> id, hit |-> Hit(st[id].document, st[id].metadata, score)]
    IN  IF BelowThreshold(score, min_relevance) THEN cands
        ELSE IF low_quality[id] THEN cands
        ELSE IF pos = 0 THEN Append(cands, entry)
        ELSE [cands EXCEPT ![pos] = entry]

AddCandidate(cands, st, id, dist, min_relevance, low_quality) ==
    LET score == Score(dist)
        pos   == PosOf(cands, id)
        entry == [id |-> id, hit |-> Hit(st[id].document, st[id].metadata, score)]
    IN  IF BelowThreshold(score, min_relevance) THEN cands
        ELSE IF low_quality[id] THEN cands
        ELSE IF pos = 0 THEN Append(cands, entry)
        ELSE IF score > cands[pos].hit.score THEN [cands EXCEPT ![pos] = entry]
        ELSE cands

RECURSIVE MergeResults(_, _, _, _, _, _)
MergeResults(cands, st, results, k, min_relevance, low_quality) ==
    IF k > Len(results) THEN cands
    ELSE MergeResults(AddCandidate(cands, st, results[k][1], results[k][2],
                                   min_relevance, low_quality),
                      st, results, k + 1, min_relevance, low_quality)

\* lines 197-228: one nearest-neighbour query per query embedding
RECURSIVE CollectCandidates(_, _, _, _, _, _, _)
CollectCandidates(cands, st, outcomes, q, fetch_k, min_relevance, low_quality) ==
    IF q > Len(outcomes) THEN cands
    ELSE CollectCandidates(
             MergeResults(cands, st, Take(outcomes[q], fetch_k), 1,
                          min_relevance, low_quality),
             st, outcomes, q + 1, fetch_k, min_relevance, low_quality)

\* _is_low_quality_chunk of every stored text
LowQuality(st) ==
    [id \in DOMAIN st |-> _is_low_quality_chunk(st[id].document)]

MatchesBrandMutant(filename, car_keywords) == car_keywords # {}

MatchesBrand(filename, car_keywords) ==
    \E kw \in car_keywords : IsSubstr(kw, Lower(filename))

\* lines 230-240: restrict to the matching documents when there are any
BrandFilterMutant(cands, query) ==
    LET car_keywords == _extract_car_keywords(Lower(query))
    IN  IF car_keywords # {}
        THEN SelectSeq(cands, LAMBDA c : MatchesBrand(c.hit.filename, car_keywords))
        ELSE cands

BrandFilter(cands, query) ==
    LET car_keywords == _extract_car_keywords(Lower(query))
        matched == SelectSeq(cands,
                       LAMBDA c : MatchesBrand(c.hit.filename, car_keywords))
    IN  IF car_keywords # {} /\ matched # <<>> THEN matched ELSE cands

\* lines 242-244: sort by score descending, return hits[:top_k]
TopHitsMutant(cands, top_k) ==
    Take([k \in 1..Len(cands) |-> cands[k].hit], top_k)

TopHits(cands, top_k) ==
    Take(SortHits([k \in 1..Len(cands) |-> cands[k].hit]), top_k)

\* lines 178-192: count check, defaults, fetch_k, queries, embedding request
SearchStart(query, top_k, min_relevance) ==
    /\ srch.pc # "await"
    /\ srch' = IF Count(store) = 0
               THEN [SearchIdle EXCEPT !.pc = "done", !.query = query,
                        !.top_k = top_k, !.min_relevance = min_relevance]
               ELSE [SearchIdle EXCEPT !.pc = "await", !.query = query,
                        !.top_k = top_k, !.min_relevance = min_relevance,
                        !.fetch_k = FetchK(ResolveTopK(top_k), Count(store)),
                        !.queries = QueryVariants(query)]
    /\ UNCHANGED <<settings, files, store, ing, now, ret, live, chunker>>

\* lines 192-244: the query embeddings arrive; query, merge, filter, rank
SearchResumeMutant ==
    /\ srch.pc = "await"
    /\ LET low_quality == LowQuality(store) @@ <<>>  \* tabulated once per state
       IN  \E d \in DocIdsIn(store) :
           \E outcomes \in [1..Len(srch.queries) ->
                   Rankings(store) \cup Rankings(DeleteIds(store, IdsOf(store, d)))] :
             LET candidates == CollectCandidates(<<>>, store, outcomes, 1,
                                   srch.fetch_k,
                                   ResolveMinRelevance(srch.min_relevance),
                                   low_quality)
             IN  srch' = [srch EXCEPT
                     !.pc = "done",
                     !.candidates = candidates,
                     !.scored =
                        { [id |-> r[1], score |-> Score(r[2]),
                           dropped |-> BelowThreshold(Score(r[2]),
                               ResolveMinRelevance(srch.min_relevance))] :
                          r \in UNION {Range(Take(outcomes[q], srch.fetch_k)) :
                                          q \in 1..Len(outcomes)} },
                     !.seen =
                        [q \in 1..Len(outcomes) |->
                            { [id |-> r[1],
                               total |-> store[r[1]].metadata.total_chunks] :
                              r \in Range(outcomes[q]) }],
                     !.result = TopHits(BrandFilter(candidates, srch.query),
                                        ResolveTopK(srch.top_k))]
    /\ UNCHANGED <<settings, files, store, ing, now, ret, live, chunker>>

SearchResume ==
    /\ srch.pc = "await"
    /\ LET low_quality == LowQuality(store) @@ <<>>  \* tabulated once per state
       IN  \E outcomes \in [1..Len(srch.queries) -> Rankings(store)] :
             LET candidates == CollectCandidates(<<>>, store, outcomes, 1,
                                   srch.fetch_k,
                                   ResolveMinRelevance(srch.min_relevance),
                                   low_quality)
             IN  srch' = [srch EXCEPT
                     !.pc = "done",
                     !.candidates = candidates,
                     !.scored =
                        { [id |-> r[1], score |-> Score(r[2]),
                           dropped |-> BelowThreshold(Score(r[2]),
                               ResolveMinRelevance(srch.min_relevance))] :
                          r \in UNION {Range(Take(outcomes[q], srch.fetch_k)) :
                                          q \in 1..Len(outcomes)} },
                     !.seen =
                        [q \in 1..Len(outcomes) |->
                            { [id |-> r[1],
                               total |-> store[r[1]].metadata.total_chunks] :
                              r \in Range(outcomes[q]) }],
                     !.result = TopHits(BrandFilter(candidates, srch.query),
                                        ResolveTopK(srch.top_k))]
    /\ UNCHANGED <<settings, files, store, ing, now, ret, live, chunker>>

\* the embedding request of the queries fails
SearchEmbedFail ==
    /\ srch.pc = "await"
    /\ srch' = [srch EXCEPT !.pc = "failed"]
    /\ UNCHANGED <<settings, files, store, ing, now, ret, live, chunker>>

---------------------------------------------------------------------------
(* Direct calls of the chunker and of the page loop                        *)

ChunkerOff == [pc |-> "off", text |-> <<>>, chunks |-> <<>>, windows |-> <<>>,
               pages |-> <<>>, tokens |-> <<>>, start |-> 0, error |-> "",
               parity |-> 0]

\* chunk_text(text, chunk_size, chunk_overlap)
ChunkCall ==
    /\ chunker.pc = "ready"
    /\ chunker' = [chunker EXCEPT
           !.pc = "chunked",
           !.chunks = chunk_text(chunker.text, settings.chunk_size,
                                 settings.chunk_overlap),
           !.windows = chunk_windows(chunker.text, settings.chunk_size,
                                     settings.chunk_overlap)]
    /\ UNCHANGED <<settings, files, store, ing, srch, now, ret, live>>

\* lines 89-108 of add_document on a text file holding chunker.text
PrepareCall ==
    /\ chunker.pc = "ready"
    /\ LET prep == Prepare([path |-> "t.txt", suffix |-> ".txt",
                            raw |-> chunker.text], settings)
       IN  chunker' = [chunker EXCEPT
               !.pc = "prepared", !.chunks = prep.chunks,
               !.error = PrologueError(prep)]
    /\ UNCHANGED <<settings, files, store, ing, srch, now, ret, live>>

\* the page loop of add_document over the chunks
PagesCall ==
    /\ chunker.pc = "chunked"
    /\ chunker' = [chunker EXCEPT !.pc = "paged",
                                  !.pages = chunk_pages(chunker.chunks)]
    /\ UNCHANGED <<settings, files, store, ing, srch, now, ret, live>>

---------------------------------------------------------------------------
(* Spec: ingestion in two slots and document management                    *)

Init ==
    /\ \E cfg \in Configs : settings = cfg.settings /\ files = cfg.files
    /\ store = EmptyStore
    /\ ing = [p \in IngestSlots |-> IngestIdle]
    /\ srch = SearchIdle
    /\ now = 0
    /\ ret = NoRet
    /\ live = {}
    /\ chunker = ChunkerOff

\* document ids a caller may pass; those of files not uploaded are unknown
DocIdArgs == {DocIdA, DocIdB, DocIdBig}

Next ==
    \/ \E p \in IngestSlots, u \in files : AddDocumentStart(p, u.file, u.filename)
    \/ \E p \in IngestSlots : EmbedBatchMore(p)
    \/ \E p \in IngestSlots : EmbedBatchLast(p)
    \/ \E p \in IngestSlots : EmbedBatchFail(p)
    \/ \E d \in DocIdArgs : GetDocument(d)
    \/ GetStats
    \/ \E d \in DocIdArgs : DeleteDocument(d)

Spec == Init /\ [][Next]_vars

---------------------------------------------------------------------------
(* SpecSearch: searches and deletions over a persisted collection          *)

\* the collection after a complete add_document of file under filename
Ingested(st, file, filename, t) ==
    LET text   == clean_text(extract_text(file).text)
        chunks == chunk_text(text, SmallSettings.chunk_size,
                             SmallSettings.chunk_overlap)
    IN  Upsert(st, ChunkIds(DocId(text), Len(chunks)),
               _get_embeddings(chunks, [k \in 1..Len(chunks) |-> k]),
               chunks, Metadatas(DocId(text), filename, chunks, t))

PersistedStores ==
    { EmptyStore,
      Ingested(EmptyStore, FileA, FnKia, 0),
      Ingested(EmptyStore, FileB, FnManual, 0),
      Ingested(Ingested(EmptyStore, FileK, FnKia, 0), FileB, FnManual, 0),
      Ingested(Ingested(EmptyStore, FileToc1, FnManual, 0), FileToc4, FnManual, 0) }

InitSearch ==
    /\ settings = SmallSettings
    /\ files = {Upload(FileA, FnKia), Upload(FileB, FnManual),
                Upload(FileK, FnKia)}
    /\ store \in PersistedStores
    /\ ing = [p \in IngestSlots |-> IngestIdle]
    /\ srch = SearchIdle
    /\ now = 0
    /\ ret = NoRet
    /\ live = {}
    /\ chunker = ChunkerOff

NextSearch ==
    \/ \E q \in Queries, k \in TopKs, m \in MinRelevances : SearchStart(q, k, m)
    \/ SearchResume
    \/ SearchEmbedFail
    \/ \E d \in {DocIdA, DocIdB} : DeleteDocument(d)

SpecSearch == InitSearch /\ [][NextSearch]_vars

---------------------------------------------------------------------------
(* SpecPdf: extract_text on PDF files, whatever each backend does          *)

CidText == <<"(", "c", "i", "d", ":", "1", ")">>

\* texts a backend may return: nothing, a page of text, glyph-id artifacts
\* in a long and in a short text, mostly Latin-with-diacritics text, and
\* text with diacritics but more Cyrillic
PdfTexts ==
    { <<>>,
      Marker(1) \o <<"a">>,
      CidText \o Rep(<<"a">>, GarbledMinLen),
      CidText,
      Rep(<<"%">>, 10) \o Rep(<<"a">>, 40),
      Rep(<<"%">>, 10) \o Rep(<<"@">>, 40) }

PdfOutcomes ==
    {[raises |-> TRUE, text |-> <<>>]}
        \cup {[raises |-> FALSE, text |-> t] : t \in PdfTexts}

PdfFiles ==
    {[path |-> "m.pdf", suffix |-> ".pdf", backends |-> b] :
        b \in [Range(PdfChain) -> PdfOutcomes]}

\* raw_text = extract_text(file_path, content_type) on an uploaded PDF
ExtractText ==
    /\ ret.op = "none"
    /\ \E u \in files :
           ret' = [op |-> "extract_text", arg |-> 0,
                   value |-> <<extract_text(u.file)>>, status |-> 0]
    /\ UNCHANGED <<settings, files, store, ing, srch, now, live, chunker>>

InitPdf ==
    /\ settings = DefaultSettings
    /\ \E f \in PdfFiles : files = {Upload(f, FnManual)}
    /\ store = EmptyStore
    /\ ing = [p \in IngestSlots |-> IngestIdle]
    /\ srch = SearchIdle
    /\ now = 0
    /\ ret = NoRet
    /\ live = {}
    /\ chunker = ChunkerOff

NextPdf == ExtractText

SpecPdf == InitPdf /\ [][NextPdf]_vars

---------------------------------------------------------------------------
(* SpecChunk: chunk_text and the page loop on every small text             *)

MaxPieces == 4

MaxChunkSize == 10

Pieces == {<<"a">>, <<" ">>, Marker(1), Marker(2)}

ChunkTexts ==
    {Flatten(ps) : ps \in UNION {[1..n -> Pieces] : n \in 0..MaxPieces}}

ChunkSettings ==
    {[chunk_size |-> cs, chunk_overlap |-> ov] :
        cs \in 1..MaxChunkSize, ov \in 0..(MaxChunkSize - 1)}

\* a text of 2500 tokens: no two neighbouring characters form a longer token
ScenarioText == Rep(<<"a", "b">>, 1250)

InitChunk ==
    /\ \/ /\ settings \in {c \in ChunkSettings : c.chunk_overlap < c.chunk_size}
          /\ \E t \in ChunkTexts :
                 chunker = [ChunkerOff EXCEPT !.pc = "ready", !.text = t]
       \/ /\ settings = DefaultSettings
          /\ chunker = [ChunkerOff EXCEPT !.pc = "ready", !.text = ScenarioText]
    /\ files = {}
    /\ store = EmptyStore
    /\ ing = [p \in IngestSlots |-> IngestIdle]
    /\ srch = SearchIdle
    /\ now = 0
    /\ ret = NoRet
    /\ live = {}

NextChunk == ChunkCall \/ PagesCall \/ PrepareCall

SpecChunk == InitChunk /\ [][NextChunk]_vars

---------------------------------------------------------------------------
(* SpecWindow: the while loop of chunk_text, one iteration per step        *)

MaxLoopTokens == 6

MaxLoopSize == 4

\* the loop appends a chunk per iteration: the last MaxWindows are kept
MaxWindows == 8

LastWindows(list) ==
    IF Len(list) > MaxWindows
    THEN SubSeq(list, Len(list) - MaxWindows + 1, Len(list))
    ELSE list

\* every start at or below -(len(tokens) + chunk_size) gives the same
\* iteration (an empty slice, no break): such starts are kept as this one
StartFloor(n, chunk_size) == 0 - (n + chunk_size)

\* tokens[start:end] with Python's reading of negative and large indexes
PySlice(tokens, start, end) ==
    LET n       == Len(tokens)
        norm(i) == IF i < 0 THEN Max(i + n, 0) ELSE Min(i, n)
    IN  SubSeq(tokens, norm(start) + 1, norm(end))

\* texts of 0 .. MaxLoopTokens one-character tokens, and whitespace only
LoopTexts ==
    {[k \in 1..n |-> IF k % 2 = 1 THEN "a" ELSE "b"] : n \in 0..MaxLoopTokens}
        \cup {<<" ", " ", " ">>}

\* RAG_CHUNK_SIZE >= 1 and RAG_CHUNK_OVERLAP >= 0, passed on as configured
LoopSettings ==
    {[chunk_size |-> cs, chunk_overlap |-> ov] :
        cs \in 1..MaxLoopSize, ov \in 0..(MaxLoopSize + 1)}

\* the blank test and the tokens of every text, tabulated
Tokenized ==
    [t \in LoopTexts |-> [blank |-> IsBlank(t), tokens |-> encode(t)]] @@ <<>>

\* lines 34-44: the early returns, then tokens, start = 0
WindowEnter ==
    /\ chunker.pc = "ready"
    /\ LET text == Tokenized[chunker.text]
       IN  chunker' =
             IF text.blank THEN [chunker EXCEPT !.pc = "chunked"]
             ELSE IF Len(text.tokens) <= settings.chunk_size
             THEN [chunker EXCEPT
                      !.pc = "chunked", !.tokens = text.tokens,
                      !.chunks = ShortChunks(chunker.text),
                      !.windows = <<[lo |-> 0, hi |-> Len(text.tokens)]>>]
             ELSE [chunker EXCEPT !.pc = "loop", !.tokens = text.tokens,
                                  !.start = 0]
    /\ UNCHANGED <<settings, files, store, ing, srch, now, ret, live>>

\* lines 46-54: the loop test and one iteration; parity is the number of
\* iterations made so far, modulo 2
WindowStepMutant ==
    /\ chunker.pc = "loop"
    /\ LET tokens == chunker.tokens
           it == WindowIter(Len(tokens), chunker.start, settings.chunk_size,
                            ChunkStep(settings.chunk_size, settings.chunk_overlap))
       IN  chunker' = [chunker EXCEPT
               !.pc = IF it.done THEN "chunked" ELSE "loop",
               !.parity = (@ + 1) % 2,
               !.start = chunker.start,
               !.windows = LastWindows(@ \o it.ws),
               !.chunks = LastWindows(@ \o [k \in 1..Len(it.ws) |->
                              decode(PySlice(tokens, it.ws[k].lo, it.ws[k].hi))])]
    /\ UNCHANGED <<settings, files, store, ing, srch, now, ret, live>>

WindowStep ==
    /\ chunker.pc = "loop"
    /\ LET tokens == chunker.tokens
           it == WindowIter(Len(tokens), chunker.start, settings.chunk_size,
                            ChunkStep(settings.chunk_size, settings.chunk_overlap))
       IN  chunker' = [chunker EXCEPT
               !.pc = IF it.done THEN "chunked" ELSE "loop",
               !.parity = (@ + 1) % 2,
               !.start = Max(it.start, StartFloor(Len(tokens), settings.chunk_size)),
               !.windows = LastWindows(@ \o it.ws),
               !.chunks = LastWindows(@ \o [k \in 1..Len(it.ws) |->
                              decode(PySlice(tokens, it.ws[k].lo, it.ws[k].hi))])]
    /\ UNCHANGED <<settings, files, store, ing, srch, now, ret, live>>

InitWindow ==
    /\ settings \in LoopSettings
    /\ files = {}
    /\ store = EmptyStore
    /\ ing = [p \in IngestSlots |-> IngestIdle]
    /\ srch = SearchIdle
    /\ now = 0
    /\ ret = NoRet
    /\ live = {}
    /\ \E t \in LoopTexts :
          chunker = [ChunkerOff EXCEPT !.pc = "ready", !.text = t]

NextWindow == WindowEnter \/ WindowStep

\* chunk_text runs to its return without suspension
SpecWindow == InitWindow /\ [][NextWindow]_vars /\ WF_vars(NextWindow)

---------------------------------------------------------------------------
(* SpecPages: the page markers PyMuPDF and pypdf extraction write          *)

\* lines = [l.strip() for l in text.strip().split('\n') if l.strip()]
NonEmptyLines(text) ==
    LET all == Lines(Strip(text))
    IN  SelectSeq([k \in 1..Len(all) |-> Strip(all[k])], LAMBDA l : l # <<>>)

\* re.fullmatch(r'(\d{1,3})', line) with 1 <= int(...) <= 999
StandaloneNumber(line) ==
    IF /\ Len(line) \in 1..3
       /\ \A i \in 1..Len(line) : line[i] \in DigitChars
       /\ ParseInt(line, 0) \in 1..999
    THEN Some(ParseInt(line, 0)) ELSE None

\* for line in [lines[-1], lines[0]]: the first standalone number
LastThenFirst(lines) ==
    IF lines = <<>> THEN None
    ELSE IF StandaloneNumber(lines[Len(lines)]) # None
    THEN StandaloneNumber(lines[Len(lines)])
    ELSE StandaloneNumber(lines[1])

_detect_printed_page_number(text) == LastThenFirst(NonEmptyLines(text))

\* the printed number found on each page that has text
PrintedNumbers(pages) ==
    [i \in 1..Len(pages) |->
        IF pages[i] = <<>> THEN None ELSE _detect_printed_page_number(pages[i])]

\* the offset of the first page, third or later, whose printed number is
\* at most 20 below its physical number; `page` is that page
OffsetFrom(printed) ==
    LET at == {i \in 1..Len(printed) :
                  /\ printed[i] # None
                  /\ printed[i][1] >= 1
                  /\ i - 1 >= 2
                  /\ i - printed[i][1] \in 0..20}
    IN  IF at = {} THEN [found |-> FALSE, offset |-> 0, page |-> 0]
        ELSE LET i == CHOOSE i \in at : \A j \in at : i <= j
             IN  [found |-> TRUE, offset |-> i - printed[i][1], page |-> i]

\* first pass over the pages
DetectOffset(pages) == OffsetFrom(PrintedNumbers(pages))

\* second pass, one page: page_num = (i + 1) - offset, or i + 1 when there
\* is no offset or the difference is below 1
PageNum(i, det) ==
    IF det.found
    THEN IF i - det.offset < 1 THEN i ELSE i - det.offset
    ELSE i

\* "\n\n".join(parts)
RECURSIVE JoinParts(_)
JoinParts(parts) ==
    IF Len(parts) = 0 THEN <<>>
    ELSE IF Len(parts) = 1 THEN parts[1]
    ELSE parts[1] \o <<"\n", "\n">> \o JoinParts(Tail(parts))

\* second pass: a "[PAGE:n]\n" + text part for every page with a body.
\* `marks` records which page got which number.
RenderPages(body, det) ==
    LET kept == SelectSeq([i \in 1..Len(body) |-> i], LAMBDA i : body[i] # <<>>)
    IN  [text  |-> JoinParts([k \in 1..Len(kept) |->
                       Marker(PageNum(kept[k], det)) \o <<"\n">> \o body[kept[k]]]),
         marks |-> [k \in 1..Len(kept) |->
                       [index |-> kept[k], page_num |-> PageNum(kept[k], det)]],
         det   |-> det]

\* both passes; PyMuPDF skips whitespace-only pages and strips the text,
\* pypdf keeps every non-empty page as it is
ExtractPages(pages, stripped) ==
    RenderPages([i \in 1..Len(pages) |->
                    IF stripped THEN Strip(pages[i]) ELSE pages[i]],
                DetectOffset(pages))

_extract_pdf_pymupdf(pages) == ExtractPages(pages, TRUE)

_extract_pdf_pypdf(pages) == ExtractPages(pages, FALSE)

MaxPdfPages == 4

\* what a library returns for one page: nothing, blanks, text without a
\* number, a printed number on the last or on the first line, a zero
PageTexts ==
    { <<>>, <<" ">>, <<"a">>, <<"a", "\n", "1">>, <<"a", "\n", "2">>,
      <<"2", "\n", "a">>, <<"a", "\n", "0">> }

PdfDocs == UNION {[1..n -> PageTexts] : n \in 0..MaxPdfPages}

PymupdfCall ==
    /\ ret.op = "none"
    /\ \E u \in files :
           ret' = [op |-> "pymupdf", arg |-> 0,
                   value |-> <<_extract_pdf_pymupdf(u.file.pages)>>, status |-> 0]
    /\ UNCHANGED <<settings, files, store, ing, srch, now, live, chunker>>

PypdfCall ==
    /\ ret.op = "none"
    /\ \E u \in files :
           ret' = [op |-> "pypdf", arg |-> 0,
                   value |-> <<_extract_pdf_pypdf(u.file.pages)>>, status |-> 0]
    /\ UNCHANGED <<settings, files, store, ing, srch, now, live, chunker>>

InitPages ==
    /\ settings = DefaultSettings
    /\ \E d \in PdfDocs :
           files = {Upload([path |-> "m.pdf", suffix |-> ".pdf", pages |-> d],
                           FnManual)}
    /\ store = EmptyStore
    /\ ing = [p \in IngestSlots |-> IngestIdle]
    /\ srch = SearchIdle
    /\ now = 0
    /\ ret = NoRet
    /\ live = {}
    /\ chunker = ChunkerOff

NextPages == PymupdfCall \/ PypdfCall

SpecPages == InitPages /\ [][NextPages]_vars

---------------------------------------------------------------------------
(* SpecClean: clean_text on every short text                               *)

MaxCleanLen == 6

CleanTexts ==
    UNION {[1..n -> {"a", " ", "\t", "\n"}] : n \in 0..MaxCleanLen}

\* text = clean_text(raw_text)
CleanCall ==
    /\ chunker.pc = "raw"
    /\ chunker' = [chunker EXCEPT !.pc = "cleaned"]
    /\ ret' = [op |-> "clean_text", arg |-> 0,
               value |-> <<clean_text(chunker.text)>>, status |-> 0]
    /\ UNCHANGED <<settings, files, store, ing, srch, now, live>>

InitClean ==
    /\ settings = DefaultSettings
    /\ \E t \in CleanTexts :
           chunker = [ChunkerOff EXCEPT !.pc = "raw", !.text = t]
    /\ files = {}
    /\ store = EmptyStore
    /\ ing = [p \in IngestSlots |-> IngestIdle]
    /\ srch = SearchIdle
    /\ now = 0
    /\ ret = NoRet
    /\ live = {}

NextClean == CleanCall

SpecClean == InitClean /\ [][NextClean]_vars

---------------------------------------------------------------------------
(* SpecRace: searches interleaved with ingestions and deletions            *)

InitRace ==
    /\ settings = SmallSettings
    /\ files = {Upload(FileA, FnKia)}
    /\ store = EmptyStore
    /\ ing = [p \in IngestSlots |-> IngestIdle]
    /\ srch = SearchIdle
    /\ now = 0
    /\ ret = NoRet
    /\ live = {}
    /\ chunker = ChunkerOff

NextRace ==
    \/ \E p \in IngestSlots, u \in files : AddDocumentStart(p, u.file, u.filename)
    \/ \E p \in IngestSlots : EmbedBatchLast(p)
    \/ \E p \in IngestSlots : EmbedBatchFail(p)
    \/ DeleteDocument(DocIdA)
    \/ SearchStart(QOil, None, None)
    \/ SearchResume
    \/ SearchEmbedFail

SpecRace == InitRace /\ [][NextRace]_vars

---------------------------------------------------------------------------
(* Properties of chunk_text and of the page loop (SpecChunk)               *)

Chunked == chunker.pc \in {"chunked", "paged"}

Paged == chunker.pc = "paged"

\* every token index 0..n-1 lies in a window, and no window starts after
\* the end of the window before it
Covered(ws, n) ==
    /\ \A t \in 0..(n - 1) : \E k \in 1..Len(ws) : ws[k].lo <= t /\ t < ws[k].hi
    /\ \A k \in 1..(Len(ws) - 1) : ws[k + 1].lo <= ws[k].hi

\* C5 as claimed: for any text, whitespace-only text included, and any
\* overlap < chunk_size, the chunks' token ranges cover every token index
\* of the text with no gap between consecutive ranges
C5_AnyTextCovered ==
    Chunked => Covered(chunker.windows, count_tokens(chunker.text))

\* C5 amended: for any text holding a non-whitespace character and any
\* overlap < chunk_size, the chunks' token ranges cover every token index
\* of the text with no gap between consecutive ranges; a text with no
\* non-whitespace character gets no chunk at all
C5_NonBlankCovered ==
    Chunked =>
        IF IsBlank(chunker.text) THEN chunker.windows = <<>>
        ELSE Covered(chunker.windows, count_tokens(chunker.text))

C5_Witness ==
    /\ chunker.pc = "chunked"
    /\ ~IsBlank(chunker.text)
    /\ settings.chunk_overlap > 0
    /\ Len(chunker.windows) >= 3

\* C6 as claimed: every text of at most chunk_size tokens, empty and
\* whitespace-only text included, is returned as the one-element list [text]
C6_AnyShortTextKept ==
    (Chunked /\ count_tokens(chunker.text) <= settings.chunk_size)
        => chunker.chunks = <<chunker.text>>

\* C6 amended: every text of at most chunk_size tokens that holds a
\* non-whitespace character is returned as the one-element list [text],
\* unchanged; empty and whitespace-only text gives the empty list
C6_NonBlankShortTextKept ==
    (Chunked /\ count_tokens(chunker.text) <= settings.chunk_size)
        => chunker.chunks =
               IF IsBlank(chunker.text) THEN <<>> ELSE <<chunker.text>>

C6_Witness ==
    /\ chunker.pc = "chunked"
    /\ count_tokens(chunker.text) <= settings.chunk_size
    /\ ~IsBlank(chunker.text)
    /\ chunker.text[1] = " "
    /\ chunker.chunks = <<chunker.text>>

\* the pages value of the chunk before chunk k ("" before the first chunk)
PagesBefore(k) == IF k = 1 THEN <<>> ELSE chunker.pages[k - 1]

HasMarker(chunk) == FindPages(chunk) # <<>>

\* C7 as claimed: a chunk with no page marker gets exactly the pages value
\* of the chunk before it, the whole value also when it is a range "N-M",
\* and a chunk with markers gets the value derived from its own markers
C7_InheritsWholeValue ==
    Paged =>
        \A k \in 1..Len(chunker.chunks) :
            chunker.pages[k] =
                IF HasMarker(chunker.chunks[k])
                THEN extract_pages_from_chunk(chunker.chunks[k])
                ELSE PagesBefore(k)

\* C7 amended: a chunk with no page marker gets the last page number of
\* the pages value of the chunk before it (the part after the last "-";
\* the whole value when it is a single page or empty), and a chunk with
\* markers gets the value derived from its own markers
C7_InheritsLastPage ==
    Paged =>
        \A k \in 1..Len(chunker.chunks) :
            chunker.pages[k] =
                IF HasMarker(chunker.chunks[k])
                THEN extract_pages_from_chunk(chunker.chunks[k])
                ELSE SplitLast(PagesBefore(k), "-")

C7_Witness ==
    /\ Paged
    /\ \E k \in 2..Len(chunker.chunks) :
          /\ ~HasMarker(chunker.chunks[k])
          /\ \E i \in 1..Len(chunker.pages[k - 1]) : chunker.pages[k - 1][i] = "-"
          /\ chunker.pages[k] # <<>>

\* C8: within one document, once a chunk has a non-empty pages value,
\* every chunk after it has a non-empty pages value
C8_PagesStayKnown ==
    Paged =>
        \A j, k \in 1..Len(chunker.chunks) :
            (j < k /\ chunker.pages[j] # <<>>) => chunker.pages[k] # <<>>

C8_Witness ==
    /\ Paged
    /\ \E j, k \in 1..Len(chunker.chunks) :
          /\ j < k
          /\ chunker.pages[j] # <<>>
          /\ ~HasMarker(chunker.chunks[k])
          /\ chunker.pages[k] # <<>>

---------------------------------------------------------------------------
(* Properties of search (SpecSearch)                                       *)

SearchDone == srch.pc = "done"

\* C1: for a search with a supplied min_relevance, every returned hit
\* reports a score (rounded to 4 decimals) >= that min_relevance
C1_ThresholdRespected ==
    (SearchDone /\ srch.min_relevance # None) =>
        \A k \in 1..Len(srch.result) :
            srch.result[k].score >= srch.min_relevance[1]

\* C2: for a search with a supplied top_k >= 0, zero included, the number
\* of hits returned is at most top_k
C2_ResultBound ==
    (SearchDone /\ srch.top_k # None) => Len(srch.result) <= srch.top_k[1]

\* the hits of the candidates that survived threshold and quality filters
SurvivingHits == [k \in 1..Len(srch.candidates) |-> srch.candidates[k].hit]

\* the query names a brand and no surviving candidate's filename holds
\* one of the brand's terms
BrandWithoutMatch ==
    LET car_keywords == _extract_car_keywords(Lower(srch.query))
    IN  /\ car_keywords # {}
        /\ \A k \in 1..Len(srch.candidates) :
              ~MatchesBrand(srch.candidates[k].hit.filename, car_keywords)

\* C9: when the query names a brand and no surviving candidate's filename
\* holds a brand term, search returns the top_k best surviving candidates
\* with no brand restriction, a non-empty list when a candidate survived
C9_BrandFallback ==
    (SearchDone /\ BrandWithoutMatch) =>
        /\ srch.result = Take(SortHits(SurvivingHits), ResolveTopK(srch.top_k))
        /\ srch.candidates # <<>> => srch.result # <<>>

C9_Witness ==
    /\ SearchDone
    /\ BrandWithoutMatch
    /\ srch.candidates # <<>>
    /\ srch.result # <<>>

---------------------------------------------------------------------------
(* Properties of ingestion and document management (Spec)                  *)

\* the chunk ids {document_id}_0 .. {document_id}_{n-1}
ExpectedIds(document_id, n) == {<<document_id, i>> : i \in 0..(n - 1)}

\* slot p completes an ingestion in this step
Completes(p) == ing[p].pc = "embedding" /\ ing'[p].pc = "done"

\* C3: when an ingestion completes and the same content was ingested
\* before (under any filename), it returns the same document_id and chunk
\* count as before, and the store holds for that document exactly the ids
\* {document_id}_0 .. {document_id}_{n-1}, as many as before it completed
C3_IngestionIdempotent ==
    [][\A p \in IngestSlots :
          Completes(p) =>
              \A e \in live :
                  e.file = ing'[p].file =>
                      LET r == ing'[p].result[1]
                      IN  /\ r.document_id = e.document_id
                          /\ r.chunk_count = e.chunk_count
                          /\ IdsOf(store', r.document_id)
                                 = ExpectedIds(r.document_id, r.chunk_count)
                          /\ IdsOf(store', r.document_id)
                                 = IdsOf(store, r.document_id)
                          /\ Count(store') = Count(store)]_vars

C3_Witness ==
    \E e1, e2 \in live :
        /\ e1.file = e2.file
        /\ e1.filename # e2.filename
        /\ e1.document_id = e2.document_id
        /\ e1.chunk_count > 1
        /\ IdsOf(store, e1.document_id)
               = ExpectedIds(e1.document_id, e1.chunk_count)

\* C4: an ingestion writes to the store only in the step that completes
\* it; while its batches are embedded, and when the provider fails on a
\* batch (first, middle or last), the store is left as it is
C4_FailedIngestionWritesNothing ==
    [][\A p \in IngestSlots :
          (ing'[p] # ing[p] /\ ing'[p].pc # "done") => store' = store]_vars

\* the provider failed on the last of three batches; nothing is stored
C4_Witness ==
    \E p \in IngestSlots :
        /\ ing[p].pc = "failed"
        /\ ing[p].error = "embedding provider"
        /\ ing[p].i = 2 * batch_size
        /\ store = EmptyStore

Live(document_id) == {e \in live : e.document_id = document_id}

\* C10: delete_document(d) of a document ingested with n chunks returns
\* true and lowers stats().total_chunks by exactly n; get_document(d)
\* returns not-found from then on until an ingestion of d completes
C10_DeleteThenNotFound ==
    [][\A d \in DocIdArgs :
          /\ (DeleteDocument(d) /\ Live(d) # {}) =>
                 /\ ret'.value = <<TRUE>>
                 /\ \A e \in Live(d) :
                       get_stats(store').total_chunks
                           = get_stats(store).total_chunks - e.chunk_count
          /\ (GetDocument(d) /\ Live(d) = {}) => ret'.value = None]_vars

\* a get_document(d) answered not-found after d was ingested and deleted,
\* another document still being stored
C10_Witness ==
    /\ ret.op = "get_document"
    /\ ret.arg = DocIdA
    /\ ret.value = None
    /\ \E p \in IngestSlots :
          /\ ing[p].pc = "done"
          /\ ing[p].result[1].document_id = DocIdA
    /\ IdsOf(store, DocIdA) = {}
    /\ IdsOf(store, DocIdB) # {}

\* C11: delete_document of a document_id that has no chunk in the store
\* returns false and leaves the store as it is, and the HTTP delete
\* endpoint answers 404
C11_DeleteUnknown ==
    [][\A d \in DocIdArgs :
          (DeleteDocument(d) /\ IdsOf(store, d) = {}) =>
              /\ ret'.value = <<FALSE>>
              /\ store' = store
              /\ ret'.status = HTTP_NOT_FOUND]_vars

\* an unknown document was deleted while another document is stored
C11_Witness ==
    /\ ret.op = "delete_document"
    /\ ret.value = <<FALSE>>
    /\ ret.status = HTTP_NOT_FOUND
    /\ IdsOf(store, ret.arg) = {}
    /\ store # EmptyStore

\* the surviving hits whose filename holds a brand term of the query
BrandMatchedHits ==
    LET car_keywords == _extract_car_keywords(Lower(srch.query))
    IN  SelectSeq(SurvivingHits, LAMBDA h : MatchesBrand(h.filename, car_keywords))

\* the hits that survived the threshold, quality and brand filters
FilteredHits ==
    IF BrandMatchedHits # <<>> THEN BrandMatchedHits ELSE SurvivingHits

\* C12: the list search returns is sorted by non-increasing score, holds
\* only hits that survived the filters, as many as top_k allows, and no
\* surviving hit left out scores strictly higher than a returned one
C12_SortedBest ==
    SearchDone =>
        /\ \A k \in 1..(Len(srch.result) - 1) :
              srch.result[k].score >= srch.result[k + 1].score
        /\ Range(srch.result) \subseteq Range(FilteredHits)
        /\ Len(srch.result) = Min(Len(FilteredHits), ResolveTopK(srch.top_k))
        /\ \A h \in Range(FilteredHits) \ Range(srch.result) :
              \A k \in 1..Len(srch.result) : h.score <= srch.result[k].score

\* two hits survived, the better one arrived second (from the expanded
\* query), and top_k = 1 returned it alone
C12_Witness ==
    /\ SearchDone
    /\ Len(srch.queries) = 2
    /\ Len(FilteredHits) = 2
    /\ FilteredHits[1].score < FilteredHits[2].score
    /\ srch.result = <<FilteredHits[2]>>

---------------------------------------------------------------------------
(* Window boundaries of chunk_text (SpecChunk)                             *)

\* chunk k (counted from 1) is the decoding of the tokens
\* [(k-1)*step, min((k-1)*step + chunk_size, N)), the last chunk is the
\* first whose window reaches N, and N = 2500, chunk_size = 800,
\* overlap = 100 give the four windows of the scenario
WindowsAsClaimed ==
    LET tokens == encode(chunker.text)
        N      == Len(tokens)
        size   == settings.chunk_size
        step   == settings.chunk_size - settings.chunk_overlap
        ws     == chunker.windows
    IN  /\ Len(ws) >= 1
        /\ Len(chunker.chunks) = Len(ws)
        /\ \A k \in 1..Len(ws) :
               /\ ws[k].lo = (k - 1) * step
               /\ ws[k].hi = Min((k - 1) * step + size, N)
               /\ chunker.chunks[k] =
                      decode(SubSeq(tokens, (k - 1) * step + 1,
                                    Min((k - 1) * step + size, N)))
               /\ (k < Len(ws)) => (k - 1) * step + size < N
        /\ (Len(ws) - 1) * step + size >= N
        /\ (N = 2500 /\ size = 800 /\ step = 700) =>
               ws = << [lo |-> 0, hi |-> 800], [lo |-> 700, hi |-> 1500],
                       [lo |-> 1400, hi |-> 2200],
                       [lo |-> 2100, hi |-> 2500] >>

\* C13 as claimed: for a text of N tokens with N > chunk_size and
\* 0 <= overlap < chunk_size, chunk k (k = 0, 1, ...) is the decoding of
\* the tokens [k*step, min(k*step + chunk_size, N)) with
\* step = chunk_size - overlap, and the last chunk is the first k whose
\* window reaches N; for N = 2500, chunk_size = 800, overlap = 100 these
\* are exactly the four windows [0:800], [700:1500], [1400:2200],
\* [2100:2500]
C13_WindowBoundaries ==
    (Chunked /\ count_tokens(chunker.text) > settings.chunk_size)
        => WindowsAsClaimed

\* C13 amended: the same boundaries for every text of N > chunk_size
\* tokens that holds a non-whitespace character; a text with no
\* non-whitespace character gets no chunk, whatever its number of tokens
C13_NonBlankWindowBoundaries ==
    (Chunked /\ count_tokens(chunker.text) > settings.chunk_size) =>
        IF IsBlank(chunker.text)
        THEN chunker.chunks = <<>> /\ chunker.windows = <<>>
        ELSE WindowsAsClaimed

C13_Witness ==
    /\ chunker.pc = "chunked"
    /\ chunker.text = ScenarioText
    /\ settings = DefaultSettings
    /\ Len(chunker.chunks) = 4
    /\ Len(chunker.chunks[4]) = 400

---------------------------------------------------------------------------
(* The PDF backend chain (SpecPdf)                                         *)

Extracted == ret.op = "extract_text"

\* C14: whenever a backend of the chain PyMuPDF, pypdf, pdfplumber,
\* pdfminer raises an exception or yields garbled text, the next backend
\* of the chain is attempted; an extraction failure reaches the caller
\* only after every backend of the chain has been attempted
C14_ChainExhausted ==
    Extracted =>
        \A u \in files :
            LET r == ret.value[1]
                b == u.file.backends
                tried(name) == name \in Range(r.attempted)
            IN  /\ \A k \in 1..(Len(PdfChain) - 1) :
                       ( /\ tried(PdfChain[k])
                         /\ \/ b[PdfChain[k]].raises
                            \/ _is_garbled(b[PdfChain[k]].text) )
                           => tried(PdfChain[k + 1])
                /\ ~r.ok => r.attempted = PdfChain

---------------------------------------------------------------------------
(* Concurrent ingestions of the same content (Spec)                        *)

FilenamesOf(st, document_id) ==
    {st[id].metadata.filename : id \in IdsOf(st, document_id)}

\* C15: for every interleaving of two concurrent ingestions of identical
\* content (possibly under different filenames), when an ingestion
\* completes the store holds for its document exactly the n chunk ids
\* {document_id}_0 .. {document_id}_{n-1}, all n carrying the filename of
\* that ingestion, the one whose upsert ran last; in no state do the
\* chunks of one document carry a mix of filenames
C15_LastUpsertWins ==
    /\ [](\A d \in DocIdsIn(store) : Cardinality(FilenamesOf(store, d)) = 1)
    /\ [][\A p \in IngestSlots :
             Completes(p) =>
                 LET r == ing'[p].result[1]
                 IN  /\ IdsOf(store', r.document_id)
                            = ExpectedIds(r.document_id, r.chunk_count)
                     /\ FilenamesOf(store', r.document_id) = {r.filename}]_vars

\* both ingestions of the two-chunk file have completed, the first while
\* the second was still embedding, and the store carries the second's
\* filename on both chunks
C15_Witness ==
    \E p, q \in IngestSlots :
        /\ ing[p].pc = "done" /\ ing[q].pc = "done"
        /\ ing[p].raced /\ ~ing[q].raced
        /\ ing[p].result[1].document_id = ing[q].result[1].document_id
        /\ ing[p].result[1].filename # ing[q].result[1].filename
        /\ ing[q].result[1].chunk_count = 2
        /\ IdsOf(store, ing[q].result[1].document_id)
               = ExpectedIds(ing[q].result[1].document_id, 2)
        /\ FilenamesOf(store, ing[q].result[1].document_id)
               = {ing[q].result[1].filename}

---------------------------------------------------------------------------
(* Listing and statistics (Spec)                                           *)

\* C16: in every store state get_documents returns exactly one row per
\* distinct document_id found among the stored chunks, and get_stats
\* reports total_documents equal to that number of rows and total_chunks
\* equal to the number of chunks stored
C16_OneRowPerDocument ==
    /\ [](LET rows == get_documents(store)
          IN  /\ Len(rows) = Cardinality(DocIdsIn(store))
              /\ {rows[k].document_id : k \in 1..Len(rows)} = DocIdsIn(store))
    /\ [][(ret'.op = "get_stats" /\ ret' # ret /\ GetStats) =>
             LET stats == ret'.value[1]
             IN  /\ stats.documents = get_documents(store)
                 /\ stats.total_documents = Cardinality(DocIdsIn(store))
                 /\ stats.total_chunks = Cardinality(DOMAIN store)]_vars

\* stats of a store holding a two-chunk and a one-chunk document
C16_Witness ==
    /\ ret.op = "get_stats"
    /\ ret.value[1].total_documents = 2
    /\ ret.value[1].total_chunks = 3
    /\ Len(ret.value[1].documents) = 2
    /\ Cardinality(DOMAIN store) = 3

---------------------------------------------------------------------------
(* Documents are stored whole (Spec)                                       *)

\* C17: in every state reached by interleaved ingestions (completed or
\* aborted) and deletions under fixed chunking parameters, each
\* document_id present in the store has a complete chunk set: its stored
\* chunk_index values are exactly 0 .. n-1, where n is the total_chunks
\* value recorded in each of its chunks
C17_CompleteChunkSets ==
    \A d \in DocIdsIn(store) :
        LET ids     == IdsOf(store, d)
            indexes == {store[id].metadata.chunk_index : id \in ids}
            totals  == {store[id].metadata.total_chunks : id \in ids}
        IN  /\ \A n \in totals : indexes = 0..(n - 1)
            /\ \A n \in totals : Cardinality(ids) = n

\* a two-chunk document stored whole, after a deletion, while another
\* ingestion has been aborted by the embedding provider
C17_Witness ==
    /\ Cardinality(IdsOf(store, DocIdA)) = 2
    /\ ret.op = "delete_document" /\ ret.value = <<TRUE>>
    /\ \E p \in IngestSlots :
          ing[p].pc = "failed" /\ ing[p].error = "embedding provider"
    /\ \E p \in IngestSlots :
          ing[p].pc = "done" /\ ing[p].result[1].document_id = DocIdA

---------------------------------------------------------------------------
(* The size of the nearest-neighbour queries (SpecSearch)                  *)

\* the step in which a suspended search gets its query embeddings and
\* queries the collection
QueriesRun == srch.pc = "await" /\ srch'.pc = "done"

\* C18: the number of results search requests from the collection in each
\* nearest-neighbour query is at most the number of records the
\* collection holds at the moment of that query, also when a
\* delete_document call completes while the search is suspended waiting
\* for the query embeddings
C18_FetchWithinStore ==
    [][QueriesRun => srch.fetch_k <= Count(store)]_vars

---------------------------------------------------------------------------
(* The threshold step against the requested value (SpecSearch)             *)

\* C19: for every requested min_relevance in [0,1], the value 0 included,
\* the threshold step of search drops a retrieved chunk if and only if
\* its score is below the requested min_relevance; a chunk whose score is
\* at least the requested value is never dropped by the threshold step
C19_ThresholdAsRequested ==
    (SearchDone /\ srch.min_relevance # None) =>
        \A e \in srch.scored :
            e.dropped <=> e.score < srch.min_relevance[1]

---------------------------------------------------------------------------
(* Short and table-of-contents chunks (SpecSearch)                         *)

\* the number of lines of text that hold a dot-leader run
DotLines(text) ==
    LET ls == Lines(text)
    IN  Cardinality({k \in 1..Len(ls) : IsDotLine(ls[k])})

\* C20 as claimed: search never returns a chunk whose text is under 100
\* characters, nor a chunk in which more than 20% of the lines contain a
\* dot-leader run, for chunks of any number of lines
C20_NoDotLeaderHits ==
    SearchDone =>
        \A k \in 1..Len(srch.result) :
            LET text == srch.result[k].text
            IN  /\ Len(text) >= 100
                /\ 5 * DotLines(text) <= Len(Lines(text))

\* C20 amended: search never returns a chunk whose text without leading
\* and trailing whitespace is under 100 characters, nor a chunk in which
\* more than 3 lines and more than 20% of the lines contain a dot-leader
\* run; a chunk with at most 3 such lines is returned whatever their share
C20_NoShortNoTocHits ==
    SearchDone =>
        \A k \in 1..Len(srch.result) :
            LET text == srch.result[k].text
            IN  /\ Len(text) >= 100
                /\ Len(Strip(text)) >= 100
                /\ ~(DotLines(text) > 3 /\ 5 * DotLines(text) > Len(Lines(text)))

\* both table-of-contents chunks were retrieved with a score above the
\* threshold; the one with four dot-leader lines of five is not returned,
\* the one with one dot-leader line of two is
C20_Witness ==
    /\ SearchDone
    /\ Len(srch.result) = 1
    /\ DotLines(srch.result[1].text) = 1
    /\ Len(Lines(srch.result[1].text)) = 2
    /\ \E e \in srch.scored :
          /\ ~e.dropped
          /\ e.id \in DOMAIN store
          /\ DotLines(store[e.id].document) = 4
          /\ Len(Lines(store[e.id].document)) = 5

---------------------------------------------------------------------------
(* The brand restriction (SpecSearch)                                      *)

\* the hit's filename holds a file term of a brand whose keyword is in
\* the query
HoldsBrandTerm(h) ==
    \E b \in Brands :
        /\ IsSubstr(b.keyword, Lower(srch.query))
        /\ \E t \in b.file_terms : IsSubstr(t, Lower(h.filename))

BrandHits == SelectSeq(SurvivingHits, HoldsBrandTerm)

\* C21: when the query holds a recognised brand keyword and at least one
\* candidate that survived the threshold and quality filters has a
\* filename holding a mapped brand term, every hit search returns has
\* such a filename, and the restriction comes before the truncation to
\* top_k: the result is the top_k best of the matching survivors
C21_BrandRestricts ==
    (SearchDone /\ BrandHits # <<>>) =>
        /\ \A k \in 1..Len(srch.result) : HoldsBrandTerm(srch.result[k])
        /\ srch.result = Take(SortHits(BrandHits), ResolveTopK(srch.top_k))

\* top_k = 1, two survivors, the better one from another document: the
\* brand's document is returned
C21_Witness ==
    /\ SearchDone
    /\ srch.top_k = Some(1)
    /\ Len(SurvivingHits) = 2
    /\ Len(BrandHits) = 1
    /\ srch.result = BrandHits
    /\ \E k \in 1..2 : SurvivingHits[k].score > srch.result[1].score

---------------------------------------------------------------------------
(* Merging the results of the two queries (SpecSearch)                     *)

\* the highest score with which the chunk was retrieved
BestScore(scored, id) ==
    LET scores == {e.score : e \in {x \in scored : x.id = id}}
    IN  CHOOSE s \in scores : \A t \in scores : t <= s

\* C22: each chunk id appears at most once in a search result, and a chunk
\* retrieved by both the original and the expanded query is reported with
\* the higher of its two scores (rounded); the chunks that survive the
\* code's filtering of each query's results before merging are those that
\* survive when the results are merged with the maximum score first and
\* filtered afterwards
C22_MergeKeepsBest ==
    [][QueriesRun =>
          LET scored    == srch'.scored
              threshold == ResolveMinRelevance(srch'.min_relevance)
              survivors ==
                  {id \in {e.id : e \in scored} :
                      /\ BestScore(scored, id) >= threshold
                      /\ ~_is_low_quality_chunk(store[id].document)}
              cands     == srch'.candidates
              result    == srch'.result
          IN  /\ \A i, j \in 1..Len(result) :
                     ( /\ result[i].document_id = result[j].document_id
                       /\ result[i].chunk_index = result[j].chunk_index )
                         => i = j
              /\ {cands[k].id : k \in 1..Len(cands)} = survivors
              /\ Len(cands) = Cardinality(survivors)
              /\ \A k \in 1..Len(cands) :
                     cands[k].hit.score
                         = Round4(BestScore(scored, cands[k].id))]_vars

\* a chunk retrieved by both queries with two scores above the threshold
\* is returned once, with the higher score
C22_Witness ==
    /\ SearchDone
    /\ Len(srch.queries) = 2
    /\ Len(srch.result) = 1
    /\ \E e1, e2 \in srch.scored :
          /\ e1.id = e2.id
          /\ ~e1.dropped /\ ~e2.dropped
          /\ e1.score < e2.score
          /\ srch.result[1].score = Round4(e2.score)
          /\ Round4(e1.score) < Round4(e2.score)
          /\ e1.id = <<srch.result[1].document_id, srch.result[1].chunk_index>>

---------------------------------------------------------------------------
(* Embeddings are stored under their chunk (Spec)                          *)

\* C23: when an ingestion of n chunks completes, the vector stored under
\* chunk id {document_id}_i is the embedding the provider produced for the
\* text of chunk i, and that text is stored with it, for every i in
\* 0 .. n-1, for every order in which the provider lists the items of a
\* batch response and for n below, equal to and above the batch size
C23_EmbeddingsAligned ==
    [][\A p \in IngestSlots :
          Completes(p) =>
              \A k \in 1..Len(ing[p].chunks) :
                  LET id == <<ing[p].doc_id, k - 1>>
                  IN  /\ id \in DOMAIN store'
                      /\ store'[id].document = ing[p].chunks[k]
                      /\ store'[id].embedding
                             = ProviderVector(ing[p].chunks[k])]_vars

\* an ingestion of exactly one full batch of chunks has completed
C23_Witness ==
    \E p \in IngestSlots :
        /\ ing[p].pc = "done"
        /\ ing[p].result[1].chunk_count = batch_size
        /\ Count(store) = batch_size
        /\ \A id \in DOMAIN store :
              store[id].embedding = ProviderVector(store[id].document)

---------------------------------------------------------------------------
(* Termination of the window loop (SpecWindow)                             *)

Returned == chunker.pc = "chunked"

Looping == chunker.pc = "loop"

ValidOverlap == settings.chunk_overlap < settings.chunk_size

\* C24: for every text and every chunk_size, overlap with
\* 0 <= overlap < chunk_size the window loop of chunk_text terminates:
\* the window start strictly increases at each step, no token index
\* beyond the end of the token stream is read, and the loop stops at the
\* first window whose end reaches the end of the stream
C24_LoopTerminates ==
    /\ ValidOverlap => <>Returned
    /\ [][(ValidOverlap /\ Looping /\ Looping')
              => chunker'.start > chunker.start]_vars
    /\ [](ValidOverlap =>
             \A k \in 1..Len(chunker.windows) :
                 LET w == chunker.windows[k]
                     N == count_tokens(chunker.text)
                 IN  /\ 0 <= w.lo /\ w.lo < N /\ w.hi <= N
                     /\ (w.hi >= N) => (k = Len(chunker.windows) /\ Returned))
    /\ []((ValidOverlap /\ Returned /\ ~IsBlank(chunker.text)) =>
             chunker.windows[Len(chunker.windows)].hi
                 = count_tokens(chunker.text))

\* the loop returned after more than two iterations with an overlap
C24_Witness ==
    /\ Returned
    /\ settings.chunk_overlap > 0
    /\ settings.chunk_overlap < settings.chunk_size
    /\ Len(chunker.windows) >= 3
    /\ chunker.start > 0

---------------------------------------------------------------------------
(* Termination under any configured pair (SpecWindow)                      *)

\* C30: chunk_text terminates for every text and every configured pair
\* chunk_size >= 1, chunk_overlap >= 0, pairs with chunk_overlap >=
\* chunk_size included
C30_TerminatesForAnySettings == <>Returned

---------------------------------------------------------------------------
(* Zero chunks (SpecChunk)                                                 *)

WhitespaceOnly(text) == \A i \in 1..Len(text) : text[i] \in WhiteSpace

IngestPrepared == chunker.pc = "prepared"

\* C25: chunk_text returns the empty list if and only if its input is
\* empty or whitespace-only, and never a list holding an empty chunk;
\* hence an ingestion whose cleaned text passed the blank-text check gets
\* at least one chunk and never fails with the zero-chunks error
C25_NoChunksIffBlank ==
    /\ Chunked =>
           /\ (chunker.chunks = <<>>) <=> WhitespaceOnly(chunker.text)
           /\ \A k \in 1..Len(chunker.chunks) : chunker.chunks[k] # <<>>
    /\ IngestPrepared =>
           /\ chunker.error # "zero chunks"
           /\ (chunker.error = "") <=> ~WhitespaceOnly(chunker.text)
           /\ (chunker.error = "") => chunker.chunks # <<>>

\* an ingestion of a text that starts with whitespace passed the checks
C25_Witness ==
    /\ IngestPrepared
    /\ chunker.error = ""
    /\ chunker.text[1] = " "
    /\ Len(chunker.chunks) >= 2

---------------------------------------------------------------------------
(* Best-effort PDF extraction (SpecPdf)                                    *)

\* every backend returns, and returns garbled or empty text
AllGarbledOrEmpty(b) ==
    \A name \in Range(PdfChain) :
        /\ ~b[name].raises
        /\ b[name].text = <<>> \/ _is_garbled(b[name].text)

\* the positions in the chain of the backends that return some text
NonEmptyAt(b) == {k \in 1..Len(PdfChain) : b[PdfChain[k]].text # <<>>}

\* C26: when every PDF backend of the chain yields garbled or empty text,
\* the extraction does not fail, runs the whole chain and returns the last
\* non-empty text produced by any backend of the chain
C26_LastNonEmptyReturned ==
    Extracted =>
        \A u \in files :
            LET r == ret.value[1]
                b == u.file.backends
            IN  AllGarbledOrEmpty(b) =>
                    /\ r.ok
                    /\ r.attempted = PdfChain
                    /\ NonEmptyAt(b) # {} =>
                           \E k \in NonEmptyAt(b) :
                               /\ \A j \in NonEmptyAt(b) : j <= k
                               /\ r.text = b[PdfChain[k]].text

---------------------------------------------------------------------------
(* Page offset (SpecPages)                                                 *)

PagesMarked == ret.op \in {"pymupdf", "pypdf"}

\* C27: the detected page offset is applied only to the page on which it
\* was established and to the pages after it; every page before that page,
\* and every page when no offset is detected, is marked with its raw
\* 1-based physical page index
C27_OffsetFromEstablishedPage ==
    PagesMarked =>
        LET r == ret.value[1]
        IN  /\ FindPages(r.text) = [k \in 1..Len(r.marks) |-> r.marks[k].page_num]
            /\ \A k \in 1..Len(r.marks) :
                   LET m == r.marks[k]
                   IN  IF r.det.found /\ m.index >= r.det.page
                       THEN m.page_num = m.index - r.det.offset
                       ELSE m.page_num = m.index

---------------------------------------------------------------------------
(* Blank lines after cleaning (SpecClean)                                  *)

\* C28: for every input string, including inputs with lines made only of
\* spaces or tabs, the output of clean_text contains no run of three or
\* more consecutive newline characters
C28_NoThreeNewlines ==
    ret.op = "clean_text" =>
        ~IsSubstr(<<"\n", "\n", "\n">>, ret.value[1])

---------------------------------------------------------------------------
(* The reads of one search (SpecRace)                                      *)

\* C29: within one search call the nearest-neighbour queries made after
\* the query embeddings arrive run with no suspension between them: under
\* any interleaving with ingestions and deletions they observe the same
\* store contents, and a document is seen by them either with all of its
\* chunks or with none
C29_QueriesSeeOneStore ==
    [][QueriesRun =>
        /\ store' = store
        /\ \A q \in 1..Len(srch'.seen) :
              /\ {e.id : e \in srch'.seen[q]} = DOMAIN store
              /\ \A e \in srch'.seen[q] :
                     {x.id[2] : x \in {y \in srch'.seen[q] : y.id[1] = e.id[1]}}
                         = 0..(e.total - 1)]_vars

\* both queries of a search saw the two chunks of a document that had been
\* deleted and ingested again, while another ingestion was in flight
C29_Witness ==
    /\ srch.pc = "done"
    /\ Len(srch.seen) = 2
    /\ \A q \in 1..2 : {e.id : e \in srch.seen[q]} = IdsOf(store, DocIdA)
    /\ Cardinality(IdsOf(store, DocIdA)) = 2
    /\ ret.op = "delete_document" /\ ret.value = <<TRUE>>
    /\ \E p \in IngestSlots : ing[p].pc = "embedding"

====
